---------------------------- MODULE Spec2Model ----------------------------
(***************************************************************************)
(* Browser-profile import engine (ImportService) and the canonical store   *)
(* it writes to (bookmarks, history, cookies, logins tables).              *)
(*                                                                         *)
(* Conventions of the model                                                *)
(*  - SQL NULL / JavaScript null and undefined are the string NULL.        *)
(*  - A table is the sequence of its rows in rowid order.                  *)
(*  - A Buffer is the string of its bytes; an encrypted blob is a record   *)
(*    telling how it was built (tag, key, plaintext, auth tag intact).     *)
(*  - The canonical clock counts abstract milliseconds; a Chromium         *)
(*    timestamp is the two-limb number hi * 11644473600000000 + lo         *)
(*    microseconds, because the 1601->1970 offset does not fit the         *)
(*    integers of the model checker.                                       *)
(***************************************************************************)
EXTENDS Integers, Sequences, FiniteSets, TLC

VARIABLES
    fs,         \* the foreign browser files on disk (chosen once, then unchanged)
    tmp,        \* temporary snapshot copies present in os.tmpdir(), by source file
    bookmarks,  \* canonical store: bookmarks table
    history,    \* canonical store: history table
    cookies,    \* canonical store: cookies table
    logins,     \* canonical store: logins table
    clock,      \* Date.now()
    pc,         \* position of the run in progress ("idle" when none)
    opts,       \* the ImportRunOptions the caller passes to run (chosen once)
    req,        \* the run in progress: profile id and resolved profile
    result,     \* ImportRunResult under construction
    items,      \* bookmark items still to be added by the category in progress
    catPre,     \* the table of the category in progress as it was when it began
    ret,        \* what the latest call returned or raised ("pending" while it runs)
    last,       \* the latest run that returned: its request and the store it left
    calls,      \* number of preview and run calls made
    cfg,        \* SearchService.cfg.search: the search part of the configuration
    overrideProvider,  \* SearchService.overrideProvider (NULL while undefined)
    inbox,      \* import:run requests the renderer sent that no handler took yet
    pushes,     \* per import:run handler waiting in its cookie push: the
                \* cookies.set calls it has still to make
    session,    \* the cookies of session.defaultSession, by url and name
    tabs,       \* main process: the ids of the tabs, in tab order
    activeTabId,  \* main process: the id of the active tab, or NULL
    mainWindow  \* main process: whether the main window exists

\* the state of the application around the importer
app == <<cfg, overrideProvider, inbox, pushes, session, tabs, activeTabId, mainWindow>>

vars == <<fs, opts, tmp, bookmarks, history, cookies, logins, clock, pc, req,
          result, items, catPre, ret, last, calls, cfg, overrideProvider, inbox,
          pushes, session, tabs, activeTabId, mainWindow>>

store == <<bookmarks, history, cookies, logins>>

-----------------------------------------------------------------------------
(* Bounds of the exploration *)

MaxRows == 2
MaxCalls == 2
Now0 == 5

NULL == "<null>"

Max(a, b) == IF a >= b THEN a ELSE b
Min(a, b) == IF a <= b THEN a ELSE b

Falsy(s) == s = NULL \/ s = ""

RECURSIVE SeqsUpTo(_, _)
SeqsUpTo(S, n) ==
    IF n = 0 THEN {<<>>}
    ELSE LET shorter == SeqsUpTo(S, n - 1)
         IN  shorter \cup {Append(s, x) : s \in {t \in shorter : Len(t) = n - 1}, x \in S}

-----------------------------------------------------------------------------
(* Timestamp normalisation *)

\* A Chromium timestamp of `ms` canonical milliseconds (plus `us` microseconds).
ChromeUs(ms, us) == [hi |-> 1, lo |-> ms * 1000 + us]
ChromeZero == [hi |-> 0, lo |-> 0]

\* us <= 0 on the two-limb number (|lo| stays far below one limb)
ChromeNonPositive(us) == us.hi < 0 \/ (us.hi = 0 /\ us.lo <= 0)

\* Math.floor(us / 1000 - 11644473600000): exact when hi = 1; below the
\* offset (hi = 0) the difference is negative whatever lo is.
ChromeMsSinceUnix(us) == IF us.hi >= 1 THEN us.lo \div 1000 ELSE -1

\* a conversion without the fallback on the current time
toUnixMsUnclamped(us, now) ==
    IF ChromeNonPositive(us) THEN now ELSE ChromeMsSinceUnix(us)

toUnixMsFromChromeUs(us, now) ==
    IF ChromeNonPositive(us) THEN now
    ELSE LET ms == ChromeMsSinceUnix(us)
         IN  IF ms > 0 THEN ms ELSE now

\* the inline conversion of importFirefoxHistory; v = Number(last_visit_date || 0)
toUnixMsFromFirefoxUs(v, now) ==
    LET ms == v \div 1000
    IN  IF ms > 0 THEN ms ELSE now

-----------------------------------------------------------------------------
(* chromeCrypto *)

\* Local State: a missing or unparsable file, a document without
\* os_crypt.encrypted_key, or one holding a key, DPAPI-prefixed or not.
loadChromeMasterKey(localState) ==
    IF localState.status # "ok" THEN NULL
    ELSE localState.data.key   \* the DPAPI prefix, when present, is sliced off

\* a decryption that skips the authentication of the ciphertext
decryptUnauthenticated(encrypted, masterKey) ==
    CASE encrypted.kind = "empty" -> ""
      [] encrypted.kind = "plain" -> encrypted.bytes
      [] masterKey = NULL \/ masterKey = "" -> NULL
      [] encrypted.kind = "v10" /\ encrypted.key = masterKey -> encrypted.bytes
      [] OTHER -> NULL

\* Encrypted blobs: kind "empty" (length 0), "plain" (no v10 tag), "v10"
\* (tag || nonce || ciphertext || auth tag made with `key`; tagOk is FALSE
\* when the auth tag was corrupted), "short" (v10 tag but fewer bytes than
\* nonce and auth tag need).
decryptChromeValue(encrypted, masterKey) ==
    CASE encrypted.kind = "empty" -> ""
      [] encrypted.kind = "plain" -> encrypted.bytes
      [] masterKey = NULL \/ masterKey = "" -> NULL
      [] encrypted.kind = "v10" /\ encrypted.key = masterKey /\ encrypted.tagOk
            -> encrypted.bytes
      [] OTHER -> NULL      \* setAuthTag / final() throws, caught

EmptyBlob == [kind |-> "empty", key |-> NULL, bytes |-> "", tagOk |-> FALSE]
PlainBlob(b) == [kind |-> "plain", key |-> NULL, bytes |-> b, tagOk |-> FALSE]
V10Blob(k, pt, ok) == [kind |-> "v10", key |-> k, bytes |-> pt, tagOk |-> ok]
ShortBlob == [kind |-> "short", key |-> NULL, bytes |-> "", tagOk |-> FALSE]
\* a column holding an INTEGER where a BLOB is expected: Buffer.from(n) throws
NumberBlob == [kind |-> "number", key |-> NULL, bytes |-> "", tagOk |-> FALSE]

-----------------------------------------------------------------------------
(* Canonical store: the statements the services and the importer prepare *)

HasUrl(tbl, url) == \E i \in DOMAIN tbl : tbl[i].url = url

\* BookmarksService.findByUrl: the rows with that url (none: undefined)
findByUrl(tbl, url) == SelectSeq(tbl, LAMBDA b : b.url = url)

\* an add that replaces the row holding the url
bookmarksAddOrReplace(tbl, title, url, now) ==
    IF url = NULL \/ title = NULL THEN tbl
    ELSE Append(SelectSeq(tbl, LAMBDA b : b.url # url),
                [title |-> title, url |-> url, createdAt |-> now])

\* BookmarksService.add: INSERT OR IGNORE on the UNIQUE url
bookmarksAdd(tbl, title, url, now) ==
    IF url = NULL \/ title = NULL \/ HasUrl(tbl, url) THEN tbl
    ELSE Append(tbl, [title |-> title, url |-> url, createdAt |-> now])

\* INSERT OR IGNORE INTO history(url, title, visitAt, visitCount): the table
\* after the statement; info.changes is 1 iff the table grew.
historyInsertOrIgnore(tbl, url, title, ts, vc) ==
    IF url = NULL \/ HasUrl(tbl, url) THEN tbl
    ELSE Append(tbl, [url |-> url, title |-> title, visitAt |-> ts, visitCount |-> vc])

\* an UPDATE that adds the incoming count to the stored one
historyUpdateAdding(tbl, title, ts, vc, url) ==
    [i \in DOMAIN tbl |->
        IF url # NULL /\ tbl[i].url = url
        THEN [tbl[i] EXCEPT !.title = title, !.visitAt = ts, !.visitCount = @ + vc]
        ELSE tbl[i]]

\* an UPDATE that stores the incoming count whatever the stored one is
historyUpdateOverwriting(tbl, title, ts, vc, url) ==
    [i \in DOMAIN tbl |->
        IF url # NULL /\ tbl[i].url = url
        THEN [tbl[i] EXCEPT !.title = title, !.visitAt = ts, !.visitCount = vc]
        ELSE tbl[i]]

\* UPDATE history SET title = ?, visitAt = ?, visitCount = MAX(visitCount, ?) WHERE url = ?
historyUpdate(tbl, title, ts, vc, url) ==
    [i \in DOMAIN tbl |->
        IF url # NULL /\ tbl[i].url = url
        THEN [tbl[i] EXCEPT !.title = title, !.visitAt = ts,
                            !.visitCount = Max(@, vc)]
        ELSE tbl[i]]

\* insert.run(...); if (info.changes === 0) update.run(...)
historyUpsert(tbl, url, title, ts, vc) ==
    LET inserted == historyInsertOrIgnore(tbl, url, title, ts, vc)
    IN  IF Len(inserted) = Len(tbl)
        THEN historyUpdate(tbl, title, ts, vc, url)
        ELSE inserted

\* HistoryService.updateStmt:
\* UPDATE history SET title = ?, visitAt = ?, visitCount = visitCount + 1 WHERE url = ?
historyVisitUpdate(tbl, title, now, url) ==
    [i \in DOMAIN tbl |->
        IF tbl[i].url = url
        THEN [tbl[i] EXCEPT !.title = title, !.visitAt = now, !.visitCount = @ + 1]
        ELSE tbl[i]]

\* HistoryService.recordVisit: insertStmt (visitCount 1), and updateStmt
\* when info.changes === 0
recordVisit(tbl, url, title, now) ==
    LET inserted == historyInsertOrIgnore(tbl, url, title, now, 1)
    IN  IF Len(inserted) = Len(tbl)
        THEN historyVisitUpdate(tbl, title, now, url)
        ELSE inserted

SameCookieKey(a, b) == a.host = b.host /\ a.name = b.name /\ a.path = b.path

\* an INSERT OR IGNORE: the row already stored for the key stays
cookiesInsertOrIgnore(tbl, row) ==
    IF \E i \in DOMAIN tbl : SameCookieKey(tbl[i], row) THEN tbl ELSE Append(tbl, row)

\* a plain INSERT, as if the table had no UNIQUE(host, name, path)
cookiesInsert(tbl, row) == Append(tbl, row)

\* INSERT OR REPLACE INTO cookies(...), UNIQUE(host, name, path)
cookiesInsertOrReplace(tbl, row) ==
    Append(SelectSeq(tbl, LAMBDA old : ~SameCookieKey(old, row)), row)

\* UNIQUE(origin, username) with a nullable username: SQLite holds every
\* NULL distinct from every other, so a NULL username never conflicts.
SameLoginKey(a, b) ==
    a.origin = b.origin /\ a.username # NULL /\ a.username = b.username

\* INSERT OR REPLACE INTO logins(...)
loginsInsertOrReplace(tbl, row) ==
    Append(SelectSeq(tbl, LAMBDA old : ~SameLoginKey(old, row)), row)

-----------------------------------------------------------------------------
(* Reading the foreign files *)

\* absent-or-number fields (a count that was not read, expiresAt NULL)
NoInt == 0 - 1

ChromeGe(a, b) ==
    a.last_visit_time.hi > b.last_visit_time.hi
    \/ (a.last_visit_time.hi = b.last_visit_time.hi
        /\ a.last_visit_time.lo >= b.last_visit_time.lo)

FirefoxGe(a, b) == a.last_visit_date >= b.last_visit_date

RowGe(family, a, b) == IF family = "chrome" THEN ChromeGe(a, b) ELSE FirefoxGe(a, b)

\* ORDER BY <last visit column> DESC, rows with equal keys kept in table order
RECURSIVE InsertDesc(_, _, _)
InsertDesc(x, s, family) ==
    IF s = <<>> THEN <<x>>
    ELSE IF RowGe(family, Head(s), x)
         THEN <<Head(s)>> \o InsertDesc(x, Tail(s), family)
         ELSE <<x>> \o s

RECURSIVE SortDesc(_, _)
SortDesc(s, family) ==
    IF s = <<>> THEN <<>>
    ELSE InsertDesc(s[Len(s)], SortDesc(SubSeq(s, 1, Len(s) - 1), family), family)

\* SELECT url, title, last_visit_time, visit_count FROM urls ORDER BY last_visit_time DESC
selectChromeUrls(rows) == SortDesc(rows, "chrome")

\* SELECT ... FROM moz_places WHERE url IS NOT NULL ORDER BY last_visit_date DESC
selectFirefoxPlaces(places) ==
    SortDesc(SelectSeq(places, LAMBDA p : p.url # NULL), "firefox")

\* SELECT COALESCE(b.title, p.title, p.url) AS title, p.url AS url
\* FROM moz_bookmarks b JOIN moz_places p ON b.fk = p.id
\* WHERE b.type = 1 AND p.url IS NOT NULL
RECURSIVE selectFirefoxBookmarks(_, _)
selectFirefoxBookmarks(bms, places) ==
    IF bms = <<>> THEN <<>>
    ELSE LET b == Head(bms)
             joined == SelectSeq(places, LAMBDA p : p.id = b.fk /\ p.url # NULL)
             out == [i \in DOMAIN joined |->
                        [title |-> IF b.title # NULL THEN b.title
                                   ELSE IF joined[i].title # NULL THEN joined[i].title
                                   ELSE joined[i].url,
                         url |-> joined[i].url]]
         IN  (IF b.type = 1 THEN out ELSE <<>>) \o selectFirefoxBookmarks(Tail(bms), places)

\* Bookmarks JSON values
JNull == [kind |-> "null"]
JArray(xs) == [kind |-> "array", items |-> xs]
JNode(type, name, url, children, roots) ==
    [kind |-> "object", type |-> type, name |-> name, url |-> url,
     children |-> children, roots |-> roots]
JUrl(name, url) == JNode("url", name, url, JNull, JNull)
JFolder(name, xs) == JNode("folder", name, NULL, JArray(xs), JNull)
JRoots(bar, other, synced) ==
    JNode(NULL, NULL, NULL, JNull,
          [kind |-> "object", bookmark_bar |-> bar, other |-> other, synced |-> synced])

\* the walk of importChromeLikeBookmarks: the items pushed, in order
RECURSIVE walk(_)
RECURSIVE walkAll(_)
walk(node) ==
    CASE node.kind = "null" -> <<>>
      [] node.kind = "array" -> walkAll(node.items)
      [] OTHER ->
            (IF node.type = "url" /\ node.url # NULL
             THEN <<[title |-> IF Falsy(node.name) THEN node.url ELSE node.name,
                     url |-> node.url]>>
             ELSE <<>>)
            \o walk(node.children)
            \o (IF node.roots.kind = "null" THEN <<>>
                ELSE walk(node.roots.bookmark_bar) \o walk(node.roots.other)
                     \o walk(node.roots.synced))
walkAll(xs) == IF xs = <<>> THEN <<>> ELSE walk(Head(xs)) \o walkAll(Tail(xs))

\* a count of every node of type url, whether or not it holds a url
RECURSIVE countUrlNodes(_)
RECURSIVE countUrlNodesAll(_)
countUrlNodes(node) ==
    CASE node.kind = "null" -> 0
      [] node.kind = "array" -> countUrlNodesAll(node.items)
      [] OTHER ->
            (IF node.type = "url" THEN 1 ELSE 0)
            + countUrlNodes(node.children)
            + (IF node.roots.kind = "null" THEN 0
               ELSE countUrlNodes(node.roots.bookmark_bar)
                    + countUrlNodes(node.roots.other)
                    + countUrlNodes(node.roots.synced))
countUrlNodesAll(xs) ==
    IF xs = <<>> THEN 0 ELSE countUrlNodes(Head(xs)) + countUrlNodesAll(Tail(xs))

\* the walk of countChromeBookmarks
RECURSIVE countChromeBookmarks(_)
RECURSIVE countAll(_)
countChromeBookmarks(node) ==
    CASE node.kind = "null" -> 0
      [] node.kind = "array" -> countAll(node.items)
      [] OTHER ->
            (IF node.type = "url" /\ node.url # NULL THEN 1 ELSE 0)
            + countChromeBookmarks(node.children)
            + (IF node.roots.kind = "null" THEN 0
               ELSE countChromeBookmarks(node.roots.bookmark_bar)
                    + countChromeBookmarks(node.roots.other)
                    + countChromeBookmarks(node.roots.synced))
countAll(xs) ==
    IF xs = <<>> THEN 0 ELSE countChromeBookmarks(Head(xs)) + countAll(Tail(xs))

-----------------------------------------------------------------------------
(* The per-category import steps: the table after the step, the count the  *)
(* step returns (n), and the number of source rows for which a statement   *)
(* changed the store (written).                                            *)

\* the values bound to insert.run / update.run for one Chromium urls row
chromeHistoryRow(r, now) ==
    [url |-> r.url,
     title |-> IF Falsy(r.title) THEN r.url ELSE r.title,
     ts |-> toUnixMsFromChromeUs(r.last_visit_time, now),
     vc |-> Max(1, IF r.visit_count = 0 THEN 1 ELSE r.visit_count)]

\* the same for one moz_places row (a NULL number is 0: `x || d` sees both alike)
firefoxHistoryRow(r, now) ==
    [url |-> r.url,
     title |-> IF Falsy(r.title) THEN r.url ELSE r.title,
     ts |-> toUnixMsFromFirefoxUs(r.last_visit_date, now),
     vc |-> Max(1, IF r.visit_count = 0 THEN 1 ELSE r.visit_count)]

\* the body of the history transaction over the first `max` rows
RECURSIVE historyTxn(_, _, _, _, _)
historyTxn(tbl, rows, i, max, acc) ==
    IF i > Len(rows) \/ i > max THEN [tbl |-> tbl, written |-> acc]
    ELSE LET r == rows[i]
             next == historyUpsert(tbl, r.url, r.title, r.ts, r.vc)
         IN  historyTxn(next, rows, i + 1, max,
                        acc + (IF r.url # NULL THEN 1 ELSE 0))

\* limit: 0 also stands for an absent limit (the code treats both alike)
historyMax(limit, n) == IF limit > 0 THEN Min(limit, n) ELSE n

importChromeLikeHistory(tbl, fileRows, limit, now) ==
    LET sel == selectChromeUrls(fileRows)
        rows == [i \in DOMAIN sel |-> chromeHistoryRow(sel[i], now)]
        max == historyMax(limit, Len(rows))
        done == historyTxn(tbl, rows, 1, max, 0)
    IN  [tbl |-> done.tbl, n |-> max, written |-> done.written]

importFirefoxHistory(tbl, places, limit, now) ==
    LET sel == selectFirefoxPlaces(places)
        rows == [i \in DOMAIN sel |-> firefoxHistoryRow(sel[i], now)]
        max == historyMax(limit, Len(rows))
        done == historyTxn(tbl, rows, 1, max, 0)
    IN  [tbl |-> done.tbl, n |-> max, written |-> done.written]

\* a row handler that also throws for every value it would have to decipher
RowThrowsOnCipher(blob) == blob.kind \in {"number", "v10", "short"}

\* Buffer.from(column) throws for a column that is neither Buffer nor string
RowThrows(blob) == blob.kind = "number"

\* expiresAt > 0 ? expiresAt : null
PositiveOrNull(ms) == IF ms > 0 THEN ms ELSE NoInt

\* the values bound to the cookies INSERT OR REPLACE for one source row
cookieRow(r, masterKey, source, now) ==
    LET enc == r.encrypted_value
        dec == IF enc.kind # "empty" THEN decryptChromeValue(enc, masterKey) ELSE NULL
        valBuf == IF dec = NULL
                  THEN (IF r.value = NULL THEN "" ELSE r.value)
                  ELSE dec
    IN  [host |-> IF Falsy(r.host_key) THEN "" ELSE r.host_key,
         name |-> IF Falsy(r.name) THEN "" ELSE r.name,
         value |-> valBuf,
         path |-> IF Falsy(r.path) THEN "/" ELSE r.path,
         createdAt |-> toUnixMsFromChromeUs(r.creation_utc, now),
         expiresAt |-> PositiveOrNull(toUnixMsFromChromeUs(r.expires_utc, now)),
         lastAccessedAt |-> toUnixMsFromChromeUs(r.last_access_utc, now),
         secure |-> IF r.is_secure # 0 THEN 1 ELSE 0,
         httpOnly |-> IF r.is_httponly # 0 THEN 1 ELSE 0,
         sameSite |-> r.samesite,
         source |-> source]

RECURSIVE cookiesTxn(_, _, _, _, _, _)
cookiesTxn(tbl, rows, masterKey, source, now, acc) ==
    IF rows = <<>> THEN [tbl |-> tbl, written |-> acc]
    ELSE LET r == Head(rows)
         IN  IF RowThrows(r.encrypted_value)
             THEN cookiesTxn(tbl, Tail(rows), masterKey, source, now, acc)
             ELSE cookiesTxn(cookiesInsertOrReplace(tbl, cookieRow(r, masterKey, source, now)),
                             Tail(rows), masterKey, source, now, acc + 1)

importChromeLikeCookies(tbl, fileRows, masterKey, source, now) ==
    LET done == cookiesTxn(tbl, fileRows, masterKey, source, now, 0)
    IN  [tbl |-> done.tbl, n |-> Len(fileRows), written |-> done.written]

\* r.date_password_modified || r.date_last_used || 0
FirstTruthyTime(a, b) == IF a # ChromeZero THEN a ELSE b

\* the values bound to the logins INSERT OR REPLACE for one source row
loginRow(r, masterKey, now) ==
    LET enc == r.password_value
    IN  [origin |-> IF Falsy(r.origin_url) THEN "" ELSE r.origin_url,
         username |-> r.username_value,
         password |-> IF enc.kind # "empty" THEN decryptChromeValue(enc, masterKey) ELSE "",
         realm |-> r.signon_realm,
         formActionOrigin |-> IF r.action_url # NULL THEN r.action_url
                              ELSE r.form_action_origin,
         timesUsed |-> r.times_used,
         createdAt |-> toUnixMsFromChromeUs(r.date_created, now),
         updatedAt |-> PositiveOrNull(toUnixMsFromChromeUs(
                          FirstTruthyTime(r.date_password_modified, r.date_last_used), now))]

RECURSIVE loginsTxn(_, _, _, _, _)
loginsTxn(tbl, rows, masterKey, now, acc) ==
    IF rows = <<>> THEN [tbl |-> tbl, written |-> acc]
    ELSE LET r == Head(rows)
         IN  IF RowThrows(r.password_value)
             THEN loginsTxn(tbl, Tail(rows), masterKey, now, acc)
             ELSE loginsTxn(loginsInsertOrReplace(tbl, loginRow(r, masterKey, now)),
                            Tail(rows), masterKey, now, acc + 1)

importChromeLikePasswords(tbl, fileRows, masterKey, now) ==
    LET done == loginsTxn(tbl, fileRows, masterKey, now, 0)
    IN  [tbl |-> done.tbl, n |-> Len(fileRows), written |-> done.written]

\* one pass of the bookmark loop: findByUrl, then add unless it existed
bookmarkItem(tbl, it, now) ==
    IF findByUrl(tbl, it.url) = <<>>
    THEN [tbl |-> bookmarksAdd(tbl, it.title, it.url, now), imported |-> 1]
    ELSE [tbl |-> tbl, imported |-> 0]

\* what the rest of a bookmark loop would leave in the table
RECURSIVE bookmarkLoop(_, _, _)
bookmarkLoop(tbl, todo, now) ==
    IF todo = <<>> THEN tbl
    ELSE bookmarkLoop(bookmarkItem(tbl, Head(todo), now).tbl, Tail(todo), now)

-----------------------------------------------------------------------------
(* The foreign files and detectProfiles *)

ChromeLocalState == "google-chrome/Local State"
ChromeHistory == "google-chrome/Default/History"
ChromeBookmarks == "google-chrome/Default/Bookmarks"
ChromeCookies == "google-chrome/Default/Cookies"
ChromeLogins == "google-chrome/Default/Login Data"
FirefoxPlaces == "firefox/dev.default/places.sqlite"
FirefoxCookies == "firefox/dev.default/cookies.sqlite"
FirefoxLogins == "firefox/dev.default/logins.json"

FileStatus(f, p) == IF p \in DOMAIN f.files THEN f.files[p].status ELSE "absent"

safeExists(f, p) == p # NULL /\ FileStatus(f, p) # "absent"

\* the roots of the three families, below the home directory
ChromeRoot == "google-chrome"
BraveRoot == "BraveSoftware/Brave-Browser"
FirefoxRoot == "firefox"

\* listDirs: the directories below a root, none when readdirSync throws
listDirs(f, family) ==
    IF f.dirs[family].readable THEN f.dirs[family].names ELSE <<>>

\* the directory names /^Profile \d+$/ matches, those /\.default/ matches,
\* and the section names /^Profile\d+$/i matches
NumberedProfileDirs == {"Profile 1", "Profile 9"}
DefaultLikeDirs == {"dev.default", "ini.default", "abs.default", "old.default-release"}
ProfileSections == {"Profile0", "Profile1", "profile2"}

RECURSIVE joinPath(_)
joinPath(segs) ==
    IF Len(segs) = 1 THEN segs[1]
    ELSE joinPath(SubSeq(segs, 1, Len(segs) - 1)) \o "/" \o segs[Len(segs)]

\* path.basename
basename(segs) == segs[Len(segs)]

\* ['Default', ...listDirs(root).filter(/^Profile \d+$/)], one profile each
chromeLikeProfiles(f, family, root) ==
    IF family \notin f.roots THEN <<>>
    ELSE LET dirs == <<"Default">>
                     \o SelectSeq(listDirs(f, family), LAMBDA d : d \in NumberedProfileDirs)
         IN  [i \in DOMAIN dirs |->
                [id |-> family \o ":" \o dirs[i], browser |-> family,
                 paths |-> [localState |-> joinPath(<<root, "Local State">>),
                            history |-> joinPath(<<root, dirs[i], "History">>),
                            bookmarks |-> joinPath(<<root, dirs[i], "Bookmarks">>),
                            cookies |-> joinPath(<<root, dirs[i], "Cookies">>),
                            logins |-> joinPath(<<root, dirs[i], "Login Data">>),
                            firefoxPlaces |-> NULL]]]

firefoxProfile(absPath, dirName) ==
    [id |-> "firefox:" \o dirName, browser |-> "firefox",
     paths |-> [localState |-> NULL, history |-> NULL, bookmarks |-> NULL,
                cookies |-> joinPath(<<absPath, "cookies.sqlite">>),
                logins |-> joinPath(<<absPath, "logins.json">>),
                firefoxPlaces |-> joinPath(<<absPath, "places.sqlite">>)]]

\* the profiles of profiles.ini: the [ProfileN] sections that hold a Path,
\* none when the file is missing or readFileSync throws
firefoxIniProfiles(f) ==
    IF f.ini.status # "ok" THEN <<>>
    ELSE LET entries == SelectSeq(f.ini.entries,
                                  LAMBDA e : e.section \in ProfileSections /\ e.path # <<>>)
         IN  [i \in DOMAIN entries |->
                LET abs == IF entries[i].rel THEN <<FirefoxRoot>> \o entries[i].path
                           ELSE entries[i].path
                IN  firefoxProfile(joinPath(abs), basename(abs))]

\* the fallback: the directories of the root whose name holds ".default"
firefoxDirProfiles(f) ==
    LET dirs == SelectSeq(listDirs(f, "firefox"), LAMBDA d : d \in DefaultLikeDirs)
    IN  [i \in DOMAIN dirs |->
            firefoxProfile(joinPath(<<FirefoxRoot, dirs[i]>>), dirs[i])]

\* a detection that scans the root whatever profiles.ini gave
detectProfilesScanning(f) ==
    chromeLikeProfiles(f, "chrome", ChromeRoot)
    \o chromeLikeProfiles(f, "brave", BraveRoot)
    \o (IF "firefox" \notin f.roots THEN <<>>
        ELSE firefoxIniProfiles(f) \o firefoxDirProfiles(f))

detectProfiles(f) ==
    chromeLikeProfiles(f, "chrome", ChromeRoot)
    \o chromeLikeProfiles(f, "brave", BraveRoot)
    \o (IF "firefox" \notin f.roots THEN <<>>
        ELSE IF firefoxIniProfiles(f) # <<>> THEN firefoxIniProfiles(f)
        ELSE firefoxDirProfiles(f))

\* a lookup that falls back on the profiles detected when none matches
findProfileOrAny(f, profileId) ==
    LET m == SelectSeq(detectProfiles(f), LAMBDA q : q.id = profileId)
    IN  IF m = <<>> THEN detectProfiles(f) ELSE m

\* all.find((p) => p.id === profileId): the matching profiles, first one first
findProfile(f, profileId) == SelectSeq(detectProfiles(f), LAMBDA q : q.id = profileId)

\* a guard that lets every family into the Chromium blocks
AnyFamily(prof) == prof.browser \in {"chrome", "brave", "firefox"}

ChromeLike(prof) == prof.browser = "chrome" \/ prof.browser = "brave"

\* opts.x || dflt: an explicit false falls back on the default
SelectedOrDefault(opt, dflt) == IF opt = "T" THEN TRUE ELSE dflt

\* opts.x ?? dflt, an option being "T", "F" or "U" (undefined)
Selected(opt, dflt) == IF opt = "U" THEN dflt ELSE opt = "T"

-----------------------------------------------------------------------------
(* The source profiles explored.  A file is [status, data]; status is      *)
(*   "absent"   no such file                                               *)
(*   "ok"       readable, well-formed                                      *)
(*   "noopen"   the snapshot copy cannot be opened as a database           *)
(*   "noquery"  it opens, the SELECT throws (missing table, corrupt page)  *)
(*   "nobookmarks"  (places.sqlite) moz_places can be queried, the SELECT  *)
(*              on moz_bookmarks throws                                    *)
(*   "badjson"  (Bookmarks) the text is no JSON document                   *)
(*   "nokey"    (Local State) a document without os_crypt.encrypted_key    *)

File(status, data) == [status |-> status, data |-> data]

T1 == ChromeUs(1, 0)
T2 == ChromeUs(2, 0)
T3 == ChromeUs(3, 0)

UrlRow(url, title, t, vc) ==
    [url |-> url, title |-> title, last_visit_time |-> t, visit_count |-> vc]

HistoryRows ==
    { UrlRow("u1", "A", T3, 5),
      UrlRow("u1", NULL, T1, 0),
      UrlRow("u2", "B", ChromeZero, 2),
      UrlRow(NULL, "N", T2, 1) }

PlaceRow(id, url, title, t, vc) ==
    [id |-> id, url |-> url, title |-> title, last_visit_date |-> t, visit_count |-> vc]

PlaceRows ==
    { PlaceRow(1, "u1", "F", 4000, 7),
      PlaceRow(2, "u2", NULL, 0, 0),
      PlaceRow(3, "u1", "G", 2000, 1) }

MozBookmark(type, fk, title) == [type |-> type, fk |-> fk, title |-> title]

MozBookmarks == <<MozBookmark(1, 1, "bm"), MozBookmark(2, 0, "folder"),
                  MozBookmark(1, 2, NULL)>>

CookieSrc(host, name, enc, value, expires) ==
    [host_key |-> host, name |-> name, path |-> "/", encrypted_value |-> enc,
     value |-> value, creation_utc |-> T1, expires_utc |-> expires,
     last_access_utc |-> T2, is_secure |-> 1, is_httponly |-> 0, samesite |-> NULL]

CookieRows ==
    { CookieSrc("h1", "sid", V10Blob("K1", "secret", TRUE), "", T3),
      CookieSrc("h1", "sid", V10Blob("K1", "secret", FALSE), "", ChromeZero),
      CookieSrc("h2", "pref", EmptyBlob, "dark", T3),
      CookieSrc("h2", "tok", V10Blob("K2", "other", TRUE), "legacy", T3),
      CookieSrc("h3", "m", ShortBlob, NULL, T3),
      CookieSrc("h1", "n", NumberBlob, "", T3) }

LoginSrc(origin, user, enc) ==
    [origin_url |-> origin, username_value |-> user, password_value |-> enc,
     signon_realm |-> origin, action_url |-> NULL, form_action_origin |-> NULL,
     times_used |-> 1, date_created |-> T1, date_password_modified |-> ChromeZero,
     date_last_used |-> T2]

LoginRows ==
    { LoginSrc("o1", "alice", V10Blob("K1", "pw", TRUE)),
      LoginSrc("o1", NULL, V10Blob("K1", "pw", FALSE)),
      LoginSrc("o1", "alice", EmptyBlob),
      LoginSrc("o2", "bob", NumberBlob) }

Leaves ==
    { JUrl("Site", "u1"), JUrl("", "u2"), JUrl("Again", "u1"), JUrl("NoUrl", NULL) }

\* a Bookmarks document holding the leaves: the first in a nested folder of
\* the bookmark bar, the rest under "other"
BookmarkTree(leaves) ==
    JRoots(JFolder("bar", IF leaves = <<>> THEN <<>>
                          ELSE <<JFolder("sub", <<Head(leaves)>>)>>),
           JFolder("other", IF leaves = <<>> THEN <<>> ELSE Tail(leaves)),
           JNull)

KeyFile(k) == File("ok", [dpapi |-> TRUE, key |-> k])

BaseFiles ==
    (ChromeLocalState :> KeyFile("K1"))
    @@ (ChromeHistory :> File("ok", <<UrlRow("u1", "A", T3, 5)>>))
    @@ (ChromeBookmarks :> File("ok", BookmarkTree(<<JUrl("Site", "u1")>>)))
    @@ (ChromeCookies :> File("ok", <<CookieSrc("h1", "sid", V10Blob("K1", "secret", TRUE), "", T3)>>))
    @@ (ChromeLogins :> File("ok", <<LoginSrc("o1", "alice", V10Blob("K1", "pw", TRUE))>>))
    @@ (FirefoxPlaces :> File("ok", [places |-> <<PlaceRow(1, "u1", "F", 4000, 7)>>,
                                     bookmarks |-> MozBookmarks]))

Listing(readable, names) == [readable |-> readable, names |-> names]

IniEntry(section, path, rel) == [section |-> section, path |-> path, rel |-> rel]
Ini(status, entries) == [status |-> status, entries |-> entries]

BaseDirs == [chrome |-> Listing(TRUE, <<"Default">>),
             brave |-> Listing(TRUE, <<"Default">>),
             firefox |-> Listing(TRUE, <<"dev.default">>)]

\* a Chrome and a Firefox installation with one profile each, no profiles.ini
Base == [roots |-> {"chrome", "firefox"}, files |-> BaseFiles,
         dirs |-> BaseDirs, ini |-> Ini("absent", <<>>)]

WithFile(f, p, file) == [f EXCEPT !.files[p] = file]
WithStatus(f, p, st) == [f EXCEPT !.files[p].status = st]

\* every subset of the Chromium files broken, the rest intact
BrokenSets ==
    { [Base EXCEPT !.files[ChromeHistory].status = h, !.files[ChromeBookmarks].status = b,
                   !.files[ChromeCookies].status = c, !.files[ChromeLogins].status = l]
        : h \in {"ok", "noquery"}, b \in {"ok", "badjson"},
          c \in {"ok", "noquery"}, l \in {"ok", "noquery"} }

\* one file missing or unopenable, one root missing
SingleFaults ==
    { WithStatus(Base, p, "absent")
        : p \in {ChromeLocalState, ChromeHistory, ChromeBookmarks, ChromeCookies,
                 ChromeLogins, FirefoxPlaces} }
    \cup { WithStatus(Base, p, "noopen")
        : p \in {ChromeHistory, ChromeCookies, ChromeLogins, FirefoxPlaces} }
    \cup { WithStatus(Base, FirefoxPlaces, "noquery"), WithStatus(Base, ChromeLocalState, "nokey"),
           WithStatus(Base, FirefoxPlaces, "nobookmarks") }
    \cup { [Base EXCEPT !.roots = r] : r \in {{"chrome"}, {"firefox"}, {}} }

\* one category's content varied over every table of up to MaxRows rows
Contents ==
    { WithFile(Base, ChromeHistory, File("ok", rows)) : rows \in SeqsUpTo(HistoryRows, MaxRows) }
    \cup { WithFile(Base, FirefoxPlaces, File("ok", [places |-> rows, bookmarks |-> MozBookmarks]))
            : rows \in SeqsUpTo(PlaceRows, MaxRows) }
    \cup { WithFile(Base, ChromeCookies, File("ok", rows)) : rows \in SeqsUpTo(CookieRows, MaxRows) }
    \cup { WithFile(Base, ChromeLogins, File("ok", rows)) : rows \in SeqsUpTo(LoginRows, MaxRows) }
    \cup { WithFile(Base, ChromeBookmarks, File("ok", BookmarkTree(leaves)))
            : leaves \in SeqsUpTo(Leaves, MaxRows) }

Scenarios == BrokenSets \cup SingleFaults \cup Contents

-----------------------------------------------------------------------------
(* preview *)

Counts(h, b, c, p) == [history |-> h, bookmarks |-> b, cookies |-> c, passwords |-> p]

\* one "copyToTmp; new Database; SELECT COUNT(1); close; rmSync" block of
\* preview: the count (NoInt when the block is skipped or throws), the note
\* pushed, and whether the copy is left behind (rmSync is the last statement
\* of the try block, so any throw after copyToTmp skips it)
previewCount(f, path, count, note) ==
    IF ~safeExists(f, path) THEN [n |-> NoInt, notes |-> <<>>, left |-> {}]
    ELSE IF FileStatus(f, path) = "ok" THEN [n |-> count, notes |-> <<>>, left |-> {}]
    ELSE [n |-> NoInt, notes |-> <<note>>, left |-> {path}]

\* the Bookmarks block of preview reads the file in place: no copy
previewBookmarks(f, path) ==
    IF ~safeExists(f, path) THEN [n |-> NoInt, notes |-> <<>>]
    ELSE IF FileStatus(f, path) = "ok"
         THEN [n |-> countChromeBookmarks(f.files[path].data), notes |-> <<>>]
         ELSE [n |-> NoInt, notes |-> <<"Bookmarks preview failed">>]

previewChromeLike(f, prof) ==
    LET h == previewCount(f, prof.paths.history, Len(f.files[prof.paths.history].data),
                          "History preview failed")
        b == previewBookmarks(f, prof.paths.bookmarks)
        c == previewCount(f, prof.paths.cookies, Len(f.files[prof.paths.cookies].data),
                          "Cookies preview failed")
        l == previewCount(f, prof.paths.logins, Len(f.files[prof.paths.logins].data),
                          "Passwords preview failed")
    IN  [counts |-> Counts(h.n, b.n, c.n, l.n),
         notes |-> h.notes \o b.notes \o c.notes \o l.notes,
         left |-> h.left \cup c.left \cup l.left]

previewFirefox(f, prof) ==
    LET path == prof.paths.firefoxPlaces
        db == f.files[path].data
        h == Len(SelectSeq(db.places, LAMBDA r : r.url # NULL))
        b == Len(SelectSeq(db.bookmarks, LAMBDA r : r.type = 1))
    IN  IF ~safeExists(f, path)
        THEN [counts |-> Counts(NoInt, NoInt, NoInt, NoInt), notes |-> <<>>, left |-> {}]
        ELSE IF FileStatus(f, path) = "ok"
        THEN [counts |-> Counts(h, b, NoInt, NoInt), notes |-> <<>>, left |-> {}]
        ELSE [counts |-> Counts(NoInt, NoInt, NoInt, NoInt),
              notes |-> <<"Firefox preview failed">>, left |-> {path}]

ProfileIds == {"chrome:Default", "firefox:dev.default", "chrome:Profile 9"}

Preview(profileId) ==
    /\ pc = "idle"
    /\ calls < MaxCalls
    /\ calls' = calls + 1
    /\ LET found == findProfile(fs, profileId)
           p == IF ChromeLike(found[1]) THEN previewChromeLike(fs, found[1])
                ELSE previewFirefox(fs, found[1])
       IN  IF found = <<>>
           THEN /\ ret' = [call |-> "preview", outcome |-> "raised", profileId |-> profileId]
                /\ tmp' = tmp
           ELSE /\ ret' = [call |-> "preview", outcome |-> "returned",
                           profileId |-> found[1].id, browser |-> found[1].browser,
                           counts |-> p.counts, notes |-> p.notes]
                /\ tmp' = tmp \cup p.left
    /\ UNCHANGED <<fs, opts, bookmarks, history, cookies, logins, clock, pc, req, result,
                   items, catPre, last>>
    /\ UNCHANGED app

-----------------------------------------------------------------------------
(* run *)

Opts(h, b, c, p, limit) ==
    [history |-> h, bookmarks |-> b, cookies |-> c, passwords |-> p, limit |-> limit]

\* the option sets explored: {} (every option undefined), everything
\* selected, everything selected with a limit, everything but passwords,
\* cookies alone, passwords alone
OptsDomain ==
    { Opts("U", "U", "U", "U", 0),
      Opts("T", "T", "T", "T", 0),
      Opts("T", "T", "T", "T", 1),
      Opts("T", "T", "T", "F", 0),
      Opts("F", "F", "T", "F", 0),
      Opts("F", "F", "F", "T", 0) }

Zeros == [history |-> 0, bookmarks |-> 0, cookies |-> 0, passwords |-> 0]

\* imported and errors are the ImportRunResult; written observes, per
\* category, the source rows for which a statement changed the store
EmptyResult == [imported |-> Zeros @@ [sessions |-> 0], written |-> Zeros, errors |-> <<>>]

IdleReq == [profileId |-> NULL, prof |-> NULL]
NoItems == [todo |-> <<>>, imported |-> 0]
NoLast == [profileId |-> NULL,
           bookmarks |-> <<>>, history |-> <<>>, cookies |-> <<>>, logins |-> <<>>]

\* a run with one try/catch around all the blocks: a throw ends the run
afterCategoryAborting(cat, threw) ==
    IF threw THEN "return"
    ELSE CASE cat = "history" -> "bookmarks"
           [] cat = "bookmarks" -> "cookies"
           [] cat = "cookies" -> "passwords"
           [] cat = "passwords" -> "ffhistory"
           [] cat = "ffhistory" -> "ffbookmarks"
           [] cat = "ffbookmarks" -> "return"

\* each category block of run has a try/catch of its own: whether or not
\* the block threw, control goes on to the next block
afterCategory(cat, threw) ==
    CASE cat = "history" -> "bookmarks"
      [] cat = "bookmarks" -> "cookies"
      [] cat = "cookies" -> "passwords"
      [] cat = "passwords" -> "ffhistory"
      [] cat = "ffhistory" -> "ffbookmarks"
      [] cat = "ffbookmarks" -> "return"

\* result.errors.push(`<category> import failed: ...`)
pushError(res, msg) == [res EXCEPT !.errors = Append(@, msg)]

\* new Database(tmp) stands before the try block of the import functions:
\* when it throws the copy stays; a throw inside the block is followed by
\* the finally that removes it
leftByImport(f, path) == IF FileStatus(f, path) = "noopen" THEN {path} ELSE {}

\* run up to its first category block: the profile lookup
RunBegins(profileId) ==
    /\ calls < MaxCalls
    /\ calls' = calls + 1
    /\ LET found == findProfile(fs, profileId)
       IN  IF found = <<>>
           THEN /\ ret' = [call |-> "run", outcome |-> "raised", profileId |-> profileId]
                /\ UNCHANGED <<pc, req, result, clock>>
           ELSE /\ ret' = [call |-> "run", outcome |-> "pending", profileId |-> profileId]
                /\ pc' = "history"
                /\ clock' = clock + 1
                /\ req' = [profileId |-> profileId, prof |-> found[1]]
                /\ result' = EmptyResult
    /\ UNCHANGED <<fs, opts, tmp, bookmarks, history, cookies, logins, items, catPre, last>>

RunStart(profileId) ==
    /\ pc = "idle"
    /\ RunBegins(profileId)
    /\ UNCHANGED app

RunChromeHistory ==
    /\ pc = "history"
    /\ LET path == req.prof.paths.history
           active == Selected(opts.history, TRUE) /\ ChromeLike(req.prof)
                     /\ safeExists(fs, path)
           ok == active /\ FileStatus(fs, path) = "ok"
           out == importChromeLikeHistory(history, fs.files[path].data, opts.limit, clock)
       IN  /\ history' = IF ok THEN out.tbl ELSE history
           /\ tmp' = IF active THEN tmp \cup leftByImport(fs, path) ELSE tmp
           /\ result' = IF ~active THEN result
                        ELSE IF ok THEN [result EXCEPT !.imported.history = out.n,
                                                       !.written.history = out.written]
                        ELSE pushError(result, "History import failed")
           /\ pc' = afterCategory("history", active /\ ~ok)
    /\ UNCHANGED <<fs, opts, bookmarks, cookies, logins, clock, req, items, catPre, ret, last, calls>>
    /\ UNCHANGED app

RunChromeBookmarks ==
    /\ pc = "bookmarks"
    /\ LET path == req.prof.paths.bookmarks
           active == Selected(opts.bookmarks, TRUE) /\ ChromeLike(req.prof)
                     /\ safeExists(fs, path)
           ok == active /\ FileStatus(fs, path) = "ok"
           todo == walk(fs.files[path].data)
       IN  IF ok /\ todo # <<>>
           THEN /\ items' = [todo |-> todo, imported |-> 0]
                /\ catPre' = bookmarks
                /\ pc' = "bookmarks_rows"
                /\ result' = result
           ELSE /\ result' = IF active /\ ~ok
                             THEN pushError(result, "Bookmarks import failed")
                             ELSE result
                /\ pc' = afterCategory("bookmarks", active /\ ~ok)
                /\ UNCHANGED <<items, catPre>>
    /\ UNCHANGED <<fs, opts, tmp, bookmarks, history, cookies, logins, clock, req, ret, last, calls>>
    /\ UNCHANGED app

\* one pass of the loop of importChromeLikeBookmarks; each add is a
\* statement of its own, committed as it runs
ChromeBookmarkRow ==
    /\ pc = "bookmarks_rows"
    /\ LET step == bookmarkItem(bookmarks, Head(items.todo), clock)
           n == items.imported + step.imported
       IN  /\ bookmarks' = step.tbl
           /\ IF Tail(items.todo) = <<>>
              THEN /\ result' = [result EXCEPT !.imported.bookmarks = n,
                                               !.written.bookmarks = n]
                   /\ items' = NoItems
                   /\ catPre' = <<>>
                   /\ pc' = afterCategory("bookmarks", FALSE)
              ELSE /\ items' = [todo |-> Tail(items.todo), imported |-> n]
                   /\ UNCHANGED <<result, catPre, pc>>
    /\ UNCHANGED <<fs, opts, tmp, history, cookies, logins, clock, req, ret, last, calls>>
    /\ UNCHANGED app

RunChromeCookies ==
    /\ pc = "cookies"
    /\ LET path == req.prof.paths.cookies
           active == Selected(opts.cookies, FALSE) /\ ChromeLike(req.prof)
                     /\ safeExists(fs, path)
           ok == active /\ FileStatus(fs, path) = "ok"
           masterKey == IF req.prof.paths.localState # NULL
                        THEN loadChromeMasterKey(fs.files[req.prof.paths.localState])
                        ELSE NULL
           out == importChromeLikeCookies(cookies, fs.files[path].data, masterKey,
                                          req.prof.browser, clock)
       IN  /\ cookies' = IF ok THEN out.tbl ELSE cookies
           /\ tmp' = IF active THEN tmp \cup leftByImport(fs, path) ELSE tmp
           /\ result' = IF ~active THEN result
                        ELSE IF ok THEN [result EXCEPT !.imported.cookies = out.n,
                                                       !.written.cookies = out.written]
                        ELSE pushError(result, "Cookies import failed")
           /\ pc' = afterCategory("cookies", active /\ ~ok)
    /\ UNCHANGED <<fs, opts, bookmarks, history, logins, clock, req, items, catPre, ret, last, calls>>
    /\ UNCHANGED app

RunChromePasswords ==
    /\ pc = "passwords"
    /\ LET path == req.prof.paths.logins
           active == Selected(opts.passwords, FALSE) /\ ChromeLike(req.prof)
                     /\ safeExists(fs, path)
           ok == active /\ FileStatus(fs, path) = "ok"
           masterKey == IF req.prof.paths.localState # NULL
                        THEN loadChromeMasterKey(fs.files[req.prof.paths.localState])
                        ELSE NULL
           out == importChromeLikePasswords(logins, fs.files[path].data, masterKey, clock)
       IN  /\ logins' = IF ok THEN out.tbl ELSE logins
           /\ tmp' = IF active THEN tmp \cup leftByImport(fs, path) ELSE tmp
           /\ result' = IF ~active THEN result
                        ELSE IF ok THEN [result EXCEPT !.imported.passwords = out.n,
                                                       !.written.passwords = out.written]
                        ELSE pushError(result, "Passwords import failed")
           /\ pc' = afterCategory("passwords", active /\ ~ok)
    /\ UNCHANGED <<fs, opts, bookmarks, history, cookies, clock, req, items, catPre, ret, last, calls>>
    /\ UNCHANGED app

RunFirefoxHistory ==
    /\ pc = "ffhistory"
    /\ LET path == req.prof.paths.firefoxPlaces
           active == Selected(opts.history, TRUE) /\ req.prof.browser = "firefox"
                     /\ safeExists(fs, path)
           ok == active /\ FileStatus(fs, path) \in {"ok", "nobookmarks"}
           out == importFirefoxHistory(history, fs.files[path].data.places,
                                       opts.limit, clock)
       IN  /\ history' = IF ok THEN out.tbl ELSE history
           /\ tmp' = IF active THEN tmp \cup leftByImport(fs, path) ELSE tmp
           /\ result' = IF ~active THEN result
                        ELSE IF ok THEN [result EXCEPT !.imported.history = out.n,
                                                       !.written.history = out.written]
                        ELSE pushError(result, "Firefox history import failed")
           /\ pc' = afterCategory("ffhistory", active /\ ~ok)
    /\ UNCHANGED <<fs, opts, bookmarks, cookies, logins, clock, req, items, catPre, ret, last, calls>>
    /\ UNCHANGED app

\* importFirefoxBookmarks up to its loop: the snapshot copy exists while the
\* loop runs and the finally removes it after the last pass
RunFirefoxBookmarks ==
    /\ pc = "ffbookmarks"
    /\ LET path == req.prof.paths.firefoxPlaces
           active == Selected(opts.bookmarks, TRUE) /\ req.prof.browser = "firefox"
                     /\ safeExists(fs, path)
           ok == active /\ FileStatus(fs, path) = "ok"
           rows == selectFirefoxBookmarks(fs.files[path].data.bookmarks,
                                          fs.files[path].data.places)
           todo == [i \in DOMAIN rows |->
                      [title |-> IF Falsy(rows[i].title) THEN rows[i].url ELSE rows[i].title,
                       url |-> rows[i].url]]
       IN  IF ok /\ todo # <<>>
           THEN /\ items' = [todo |-> todo, imported |-> 0]
                /\ catPre' = bookmarks
                /\ pc' = "ffbookmarks_rows"
                /\ tmp' = tmp \cup {path}
                /\ result' = result
           ELSE /\ result' = IF active /\ ~ok
                             THEN pushError(result, "Firefox bookmarks import failed")
                             ELSE result
                /\ tmp' = IF active THEN tmp \cup leftByImport(fs, path) ELSE tmp
                /\ pc' = afterCategory("ffbookmarks", active /\ ~ok)
                /\ UNCHANGED <<items, catPre>>
    /\ UNCHANGED <<fs, opts, bookmarks, history, cookies, logins, clock, req, ret, last, calls>>
    /\ UNCHANGED app

FirefoxBookmarkRow ==
    /\ pc = "ffbookmarks_rows"
    /\ LET step == bookmarkItem(bookmarks, Head(items.todo), clock)
           n == items.imported + step.imported
       IN  /\ bookmarks' = step.tbl
           /\ IF Tail(items.todo) = <<>>
              THEN /\ result' = [result EXCEPT !.imported.bookmarks = n,
                                               !.written.bookmarks = n]
                   /\ items' = NoItems
                   /\ catPre' = <<>>
                   /\ tmp' = tmp \ {req.prof.paths.firefoxPlaces}
                   /\ pc' = afterCategory("ffbookmarks", FALSE)
              ELSE /\ items' = [todo |-> Tail(items.todo), imported |-> n]
                   /\ UNCHANGED <<result, catPre, tmp, pc>>
    /\ UNCHANGED <<fs, opts, history, cookies, logins, clock, req, ret, last, calls>>
    /\ UNCHANGED app

\* return result
RunEnds ==
    /\ pc = "return"
    /\ ret' = [call |-> "run", outcome |-> "returned", profileId |-> req.prof.id,
               browser |-> req.prof.browser,
               imported |-> result.imported, errors |-> result.errors,
               written |-> result.written]
    /\ last' = [profileId |-> req.profileId, bookmarks |-> bookmarks,
                history |-> history, cookies |-> cookies, logins |-> logins]
    /\ pc' = "idle"
    /\ req' = IdleReq
    /\ result' = EmptyResult
    /\ UNCHANGED <<fs, opts, tmp, bookmarks, history, cookies, logins, clock, items, catPre, calls>>

RunReturn ==
    /\ RunEnds
    /\ UNCHANGED app

\* the process is killed while a run is in progress: what was committed
\* stays, the call returns nothing, nothing else happens
Interrupt ==
    /\ pc \notin {"idle", "killed"}
    /\ ret' = [call |-> "run", outcome |-> "interrupted", profileId |-> req.profileId,
               at |-> pc, pre |-> catPre, todo |-> items.todo]
    /\ pc' = "killed"
    /\ req' = IdleReq
    /\ result' = EmptyResult
    /\ items' = NoItems
    /\ catPre' = <<>>
    /\ UNCHANGED <<fs, opts, tmp, bookmarks, history, cookies, logins, clock, last, calls>>
    /\ UNCHANGED app

-----------------------------------------------------------------------------

(* The application around the importer: the search service, the live       *)
(* session and the tabs of the main process                                 *)

\* cfg.search: the provider, the priority list (the empty list when the
\* configuration has none) and what each provider needs
Search(provider, priority, braveKey, searxngUrl, googleKey, googleCx, bingKey, presearchUrl) ==
    [provider |-> provider, priority |-> priority,
     brave |-> [apiKey |-> braveKey],
     searxng |-> [baseUrl |-> searxngUrl],
     google |-> [apiKey |-> googleKey, cx |-> googleCx],
     bing |-> [apiKey |-> bingKey],
     presearch |-> [apiUrl |-> presearchUrl]]

\* DEFAULT_CONFIG.search with no environment variable set
DefaultSearch == Search("searxng", <<>>, "", "http://localhost:8080", "", "", "", "")

\* allowed: the providers cfg.search.provider may name
allowed == {"brave", "searxng", "google", "bing", "presearch"}

\* ordered: the order in which pickProvider tries the providers
ordered == <<"brave", "searxng", "google", "bing", "presearch">>

\* isConfigured of pickProvider
isConfigured(c, prov) ==
    CASE prov = "brave" -> ~Falsy(c.brave.apiKey)
      [] prov = "searxng" -> ~Falsy(c.searxng.baseUrl)
      [] prov = "google" -> ~Falsy(c.google.apiKey) /\ ~Falsy(c.google.cx)
      [] prov = "bing" -> ~Falsy(c.bing.apiKey)
      [] prov = "presearch" -> ~Falsy(c.presearch.apiUrl)
      [] OTHER -> FALSE

\* for (const prov of list) if (isConfigured(prov)) return prov
RECURSIVE firstConfigured(_, _)
firstConfigured(c, list) ==
    IF list = <<>> THEN NULL
    ELSE IF isConfigured(c, Head(list)) THEN Head(list)
    ELSE firstConfigured(c, Tail(list))

\* a pickProvider that does not look at cfg.search.priority
pickProviderUnordered(c, o) ==
    IF ~Falsy(o) /\ o # "auto" THEN o
    ELSE IF ~Falsy(c.provider) /\ c.provider # "auto" /\ c.provider \in allowed
    THEN c.provider
    ELSE IF firstConfigured(c, ordered) # NULL THEN firstConfigured(c, ordered)
    ELSE "searxng"

\* a pickProvider that lets the configured provider win over the override
pickProviderConfigFirst(c, o) ==
    IF ~Falsy(c.provider) /\ c.provider # "auto" /\ c.provider \in allowed
    THEN c.provider
    ELSE IF ~Falsy(o) /\ o # "auto" THEN o
    ELSE LET priority == c.priority
         IN  IF firstConfigured(c, priority) # NULL THEN firstConfigured(c, priority)
             ELSE IF firstConfigured(c, ordered) # NULL THEN firstConfigured(c, ordered)
             ELSE "searxng"

\* SearchService.pickProvider, o being this.overrideProvider
pickProvider(c, o) ==
    IF ~Falsy(o) /\ o # "auto" THEN o
    ELSE IF ~Falsy(c.provider) /\ c.provider # "auto" /\ c.provider \in allowed
    THEN c.provider
    ELSE LET priority == c.priority
         IN  IF firstConfigured(c, priority) # NULL THEN firstConfigured(c, priority)
             ELSE IF firstConfigured(c, ordered) # NULL THEN firstConfigured(c, ordered)
             ELSE "searxng"

\* the details applyImportedCookiesToSession passes to cookies.set for one
\* stored row (no stored host begins with a dot: one target url per row)
cookieDetails(r) ==
    [url |-> (IF r.secure = 1 THEN "https" ELSE "http") \o "://" \o r.host,
     name |-> r.name,
     value |-> IF r.value = NULL THEN "" ELSE r.value,
     domain |-> r.host,
     path |-> IF Falsy(r.path) THEN "/" ELSE r.path,
     secure |-> r.secure = 1,
     httpOnly |-> r.httpOnly = 1,
     expirationDate |-> IF r.expiresAt # NoInt /\ r.expiresAt > 0
                        THEN r.expiresAt \div 1000 ELSE NoInt]

\* cookies.set: the cookie replaces the one with its name, domain and path
cookiesSet(ses, details) ==
    {c \in ses : <<c.name, c.domain, c.path>> # <<details.name, details.domain, details.path>>}
    \cup {details}

\* applyImportedCookiesToSession: the cookies.set calls it makes, one for
\* every row of the cookies table that has a host, in rowid order; each call
\* is awaited before the next is made
applyImportedCookiesToSession(rows) ==
    LET hosted == SelectSeq(rows, LAMBDA r : ~Falsy(r.host))
    IN  [i \in DOMAIN hosted |-> cookieDetails(hosted[i])]

\* a hook that pushes whenever cookies were selected
cookiesWereSelected(o, res) == Selected(o.cookies, FALSE)

\* (opts?.cookies ?? false) && res.imported.cookies > 0
cookiesWereImported(o, res) == Selected(o.cookies, FALSE) /\ res.imported.cookies > 0

\* a main thread that takes the next event between two category blocks,
\* as it would if run awaited each of them
LoopFreeBetweenCategories == pc \in {"idle", "bookmarks", "cookies", "passwords"}

\* run holds no await: from its call to its return the main thread takes
\* no other event
LoopFree == pc = "idle"

\* tabs.find((x) => x.id === id)
hasTab(ts, id) == \E i \in DOMAIN ts : ts[i] = id

\* activateTab: nothing without the tab or without the main window
activateTab(ts, active, window, id) ==
    IF ~hasTab(ts, id) \/ ~window THEN active ELSE id

\* tabs[idx] || tabs[idx - 1] || tabs[0] || null, tabs being the list
\* after the splice
nextTab(ts, idx) ==
    IF idx \in DOMAIN ts THEN ts[idx]
    ELSE IF idx - 1 \in DOMAIN ts THEN ts[idx - 1]
    ELSE IF ts # <<>> THEN ts[1]
    ELSE NULL

\* the search service as constructed from the default configuration, no
\* request waiting, the session as the startup push over an empty store
\* leaves it, no window and no tab yet
AppIdle ==
    /\ cfg = DefaultSearch
    /\ overrideProvider = NULL
    /\ inbox = <<>>
    /\ pushes = <<>>
    /\ session = {}
    /\ tabs = <<>>
    /\ activeTabId = NULL
    /\ mainWindow = FALSE

-----------------------------------------------------------------------------

Init ==
    /\ fs \in Scenarios
    /\ opts \in OptsDomain
    /\ tmp = {}
    /\ bookmarks = <<>>
    /\ history = <<>>
    /\ cookies = <<>>
    /\ logins = <<>>
    /\ clock = Now0
    /\ pc = "idle"
    /\ req = IdleReq
    /\ result = EmptyResult
    /\ items = NoItems
    /\ catPre = <<>>
    /\ ret = [call |-> "none", outcome |-> "none", profileId |-> NULL]
    /\ last = NoLast
    /\ calls = 0
    /\ AppIdle

Next ==
    \/ \E id \in ProfileIds : Preview(id)
    \/ \E id \in ProfileIds : RunStart(id)
    \/ RunChromeHistory
    \/ RunChromeBookmarks
    \/ ChromeBookmarkRow
    \/ RunChromeCookies
    \/ RunChromePasswords
    \/ RunFirefoxHistory
    \/ RunFirefoxBookmarks
    \/ FirefoxBookmarkRow
    \/ RunReturn
    \/ Interrupt

Spec == Init /\ [][Next]_vars

-----------------------------------------------------------------------------
(* Properties *)

Range(sq) == {sq[i] : i \in DOMAIN sq}
UrlsOf(tbl) == {tbl[i].url : i \in DOMAIN tbl}
CookieKeysOf(tbl) == {<<tbl[i].host, tbl[i].name, tbl[i].path>> : i \in DOMAIN tbl}

\* the run in progress has done every category and repeats the run that
\* returned last (same profile, same options, same files)
RepeatsLastRun == pc = "return" /\ last.profileId = req.profileId

\* C1: running run twice in a row on an unchanged source leaves the
\* bookmarks, history and cookies tables with the rows (number and unique
\* keys) the first run left: the second run adds no row.
C1_RunTwiceAddsNoRow ==
    RepeatsLastRun =>
        /\ Len(bookmarks) = Len(last.bookmarks)
        /\ UrlsOf(bookmarks) = UrlsOf(last.bookmarks)
        /\ Len(history) = Len(last.history)
        /\ UrlsOf(history) = UrlsOf(last.history)
        /\ Len(cookies) = Len(last.cookies)
        /\ CookieKeysOf(cookies) = CookieKeysOf(last.cookies)

\* a second identical run ends over a store holding rows of all three tables
C1_Witness ==
    /\ RepeatsLastRun
    /\ result.imported.cookies > 0
    /\ result.imported.history > 0
    /\ Len(bookmarks) > 0 /\ Len(history) > 0 /\ Len(cookies) > 0

-----------------------------------------------------------------------------
(* The history merge *)

MaxOf(S) == CHOOSE m \in S : \A x \in S : m >= x

VisitCountOf(tbl, url) == SelectSeq(tbl, LAMBDA r : r.url = url)[1].visitCount

\* the rows of the source a history step reads, newest first
SourceHistory ==
    IF pc = "history" THEN selectChromeUrls(fs.files[ChromeHistory].data)
    ELSE selectFirefoxPlaces(fs.files[FirefoxPlaces].data.places)

\* this step is a history import that processed at least one source row
HistoryImportRan ==
    /\ pc \in {"history", "ffhistory"}
    /\ result'.imported.history > result.imported.history

\* the source rows this step processed: the first imported.history of them
ProcessedHistory == SubSeq(SourceHistory, 1, result'.imported.history)

ProcessedUrls == UrlsOf(ProcessedHistory) \ {NULL}

\* the greatest count the processed rows of url u bring, each row's count
\* read through norm
IncomingCount(u, norm(_)) ==
    MaxOf({norm(ProcessedHistory[k].visit_count) :
             k \in {k \in DOMAIN ProcessedHistory : ProcessedHistory[k].url = u}})

MergedCount(u, norm(_)) ==
    IF HasUrl(history, u)
    THEN Max(VisitCountOf(history, u), IncomingCount(u, norm))
    ELSE IncomingCount(u, norm)

AsIs(c) == c
AtLeastOne(c) == Max(1, c)

\* C2 as stated: after a history import processed the rows (url, c), the
\* stored visitCount of url is c if url was absent and max(existing, c) if
\* it was present.
C2_StoredCountIsSourceCount ==
    [][HistoryImportRan =>
         \A u \in ProcessedUrls : VisitCountOf(history', u) = MergedCount(u, AsIs)]_vars

\* C2: after a history import processed the rows (url, c), the stored
\* visitCount of url is max(1, c) if url was absent and
\* max(existing, max(1, c)) if it was present (a source count of 0 or less,
\* or none, is read as 1); re-importing the same source never raises it.
C2_VisitCountMerge ==
    [][HistoryImportRan =>
         \A u \in ProcessedUrls : VisitCountOf(history', u) = MergedCount(u, AtLeastOne)]_vars

\* a second run of the same profile has just re-imported a history whose
\* source row counts 0 visits, over a store that already held the url
C2_Witness ==
    /\ pc \in {"bookmarks", "ffbookmarks"}
    /\ result.written.history > 0
    /\ last.profileId = req.profileId
    /\ \E i \in DOMAIN history : \E j \in DOMAIN last.history :
         /\ history[i].url = last.history[j].url
         /\ history[i].visitCount = 1
         /\ LET src == IF pc = "bookmarks" THEN fs.files[ChromeHistory].data
                       ELSE fs.files[FirefoxPlaces].data.places
            IN  \E k \in DOMAIN src :
                  src[k].url = history[i].url /\ src[k].visit_count = 0

\* C3: an import never moves a stored entry's visitAt backwards: after a
\* history import processed a row whose url was already stored, visitAt is
\* the greater of the stored and the incoming timestamp.
C3_VisitAtNeverMovesBack ==
    [][\A i \in DOMAIN history : \A j \in DOMAIN history' :
         history'[j].url = history[i].url => history'[j].visitAt >= history[i].visitAt]_vars

-----------------------------------------------------------------------------
(* Logins *)

\* C4: the logins table holds at most one row per (origin, username), a
\* null username included.
C4_OneLoginPerKey ==
    \A i, j \in DOMAIN logins :
        (logins[i].origin = logins[j].origin /\ logins[i].username = logins[j].username)
            => i = j

-----------------------------------------------------------------------------
(* run and preview as calls *)

RunReturned == ret.call = "run" /\ ret.outcome = "returned"

\* the category reading the file at path is selected and its step throws
Throws(selected, path) == selected /\ FileStatus(fs, path) \notin {"absent", "ok"}

\* the category reading the file at path is selected and its step succeeds
Succeeds(selected, path) == selected /\ FileStatus(fs, path) = "ok"

ErrorIf(cond, msg) == IF cond THEN <<msg>> ELSE <<>>

\* one entry per selected category whose step throws, in processing order
ExpectedErrors(browser) ==
    IF browser = "chrome"
    THEN ErrorIf(Throws(Selected(opts.history, TRUE), ChromeHistory), "History import failed")
         \o ErrorIf(Throws(Selected(opts.bookmarks, TRUE), ChromeBookmarks), "Bookmarks import failed")
         \o ErrorIf(Throws(Selected(opts.cookies, FALSE), ChromeCookies), "Cookies import failed")
         \o ErrorIf(Throws(Selected(opts.passwords, FALSE), ChromeLogins), "Passwords import failed")
    ELSE ErrorIf(Throws(Selected(opts.history, TRUE), FirefoxPlaces)
                   /\ FileStatus(fs, FirefoxPlaces) # "nobookmarks",
                 "Firefox history import failed")
         \o ErrorIf(Throws(Selected(opts.bookmarks, TRUE), FirefoxPlaces), "Firefox bookmarks import failed")

LimitedTo(n) == IF opts.limit > 0 /\ opts.limit < n THEN opts.limit ELSE n

\* every selected category of a Chromium profile whose step succeeds left
\* its rows in the store and its count in imported
ChromeProcessed ==
    /\ Succeeds(Selected(opts.history, TRUE), ChromeHistory) =>
         LET src == fs.files[ChromeHistory].data
         IN  /\ ret.imported.history = LimitedTo(Len(src))
             /\ opts.limit = 0 => (UrlsOf(src) \ {NULL}) \subseteq UrlsOf(history)
    /\ Succeeds(Selected(opts.bookmarks, TRUE), ChromeBookmarks) =>
         UrlsOf(walk(fs.files[ChromeBookmarks].data)) \subseteq UrlsOf(bookmarks)
    /\ Succeeds(Selected(opts.cookies, FALSE), ChromeCookies) =>
         LET src == fs.files[ChromeCookies].data
         IN  /\ ret.imported.cookies = Len(src)
             /\ \A k \in DOMAIN src :
                  src[k].encrypted_value.kind # "number" =>
                     <<src[k].host_key, src[k].name, src[k].path>> \in CookieKeysOf(cookies)
    /\ Succeeds(Selected(opts.passwords, FALSE), ChromeLogins) =>
         LET src == fs.files[ChromeLogins].data
         IN  /\ ret.imported.passwords = Len(src)
             /\ \A k \in DOMAIN src :
                  src[k].password_value.kind # "number" =>
                     \E i \in DOMAIN logins :
                        /\ logins[i].origin = src[k].origin_url
                        /\ logins[i].username = src[k].username_value

FirefoxProcessed ==
    /\ (Selected(opts.history, TRUE)
          /\ FileStatus(fs, FirefoxPlaces) \in {"ok", "nobookmarks"}) =>
         LET src == SelectSeq(fs.files[FirefoxPlaces].data.places, LAMBDA r : r.url # NULL)
         IN  /\ ret.imported.history = LimitedTo(Len(src))
             /\ opts.limit = 0 => UrlsOf(src) \subseteq UrlsOf(history)
    /\ Succeeds(Selected(opts.bookmarks, TRUE), FirefoxPlaces) =>
         LET db == fs.files[FirefoxPlaces].data
         IN  UrlsOf(selectFirefoxBookmarks(db.bookmarks, db.places)) \subseteq UrlsOf(bookmarks)

\* C5: whatever subset F of the selected categories throws, run returns,
\* errors holds exactly one entry per category of F in processing order,
\* and every selected category outside F is processed and reported.
C5_FailureIsolation ==
    RunReturned =>
        /\ ret.errors = ExpectedErrors(ret.browser)
        /\ IF ret.browser = "chrome" THEN ChromeProcessed ELSE FirefoxProcessed

\* history and cookies threw, bookmarks between them was imported
C5_Witness ==
    /\ RunReturned
    /\ ret.errors = <<"History import failed", "Cookies import failed">>
    /\ ret.imported.bookmarks > 0
    /\ ret.imported.passwords > 0

Detected(profileId) ==
    \E i \in DOMAIN detectProfiles(fs) : detectProfiles(fs)[i].id = profileId

\* C6: preview and run raise iff the profile id matches no detected
\* profile, and then the store is unchanged; otherwise preview returns a
\* result and run, once started, never raises.
C6_RaisesIffNoSuchProfile ==
    [][/\ calls' # calls =>
            /\ ret'.outcome = "raised" <=> ~Detected(ret'.profileId)
            /\ ret'.outcome = "raised" => store' = store
            /\ ret'.call = "preview" => ret'.outcome \in {"raised", "returned"}
       /\ ret.outcome = "pending" => ret'.outcome \in {"pending", "returned", "interrupted"}
       /\ pc = "return" /\ pc' = "idle" => ret'.outcome = "returned"]_vars

\* run raised for an unknown profile over a store an earlier run had filled
C6_Witness ==
    /\ ret.call = "run" /\ ret.outcome = "raised"
    /\ last.profileId # NULL
    /\ Len(history) > 0 /\ Len(bookmarks) > 0

\* C7: for each category, imported[category] returned by run is the number
\* of source rows the run inserted or updated in the store.
C7_ImportedIsWritten ==
    RunReturned =>
        \A c \in {"history", "bookmarks", "cookies", "passwords"} :
            ret.imported[c] = ret.written[c]

\* C8: a run interrupted in the middle of a category leaves in the store
\* none or all of that category's writes.
C8_NoneOrAllOfACategory ==
    (ret.outcome = "interrupted" /\ ret.at \in {"bookmarks_rows", "ffbookmarks_rows"}) =>
        \/ bookmarks = ret.pre
        \/ UrlsOf(bookmarkLoop(bookmarks, ret.todo, clock)) = UrlsOf(bookmarks)

\* C9: after preview or run returns no temporary copy remains.
C9_NoCopyLeft ==
    ret.outcome = "returned" => tmp = {}

-----------------------------------------------------------------------------
(* Values that cannot be decrypted *)

MasterKey == loadChromeMasterKey(fs.files[ChromeLocalState])

Undecryptable(blob) ==
    /\ blob.kind \notin {"empty", "number"}
    /\ decryptChromeValue(blob, MasterKey) = NULL

\* no later row of the source overwrites what row k of it wrote
LastCookieOfKey(src, k) ==
    \A m \in DOMAIN src :
        (m > k /\ src[m].encrypted_value.kind # "number")
            => <<src[m].host_key, src[m].name>> # <<src[k].host_key, src[k].name>>

LastLoginOfKey(src, k) ==
    \A m \in DOMAIN src :
        (m > k /\ src[m].password_value.kind # "number" /\ src[k].username_value # NULL)
            => <<src[m].origin_url, src[m].username_value>>
                 # <<src[k].origin_url, src[k].username_value>>

CookiesImported == Succeeds(Selected(opts.cookies, FALSE), ChromeCookies)
PasswordsImported == Succeeds(Selected(opts.passwords, FALSE), ChromeLogins)

\* every cookie row that cannot be decrypted is stored with its metadata
\* and a value among those secret(row) allows, and no error is reported
UndecryptableCookiesKept(secret(_)) ==
    CookiesImported =>
        LET src == fs.files[ChromeCookies].data
        IN  /\ "Cookies import failed" \notin Range(ret.errors)
            /\ \A k \in DOMAIN src :
                 (Undecryptable(src[k].encrypted_value) /\ LastCookieOfKey(src, k)) =>
                    \E i \in DOMAIN cookies :
                       /\ cookies[i].host = src[k].host_key
                       /\ cookies[i].name = src[k].name
                       /\ cookies[i].path = src[k].path
                       /\ cookies[i].secure = src[k].is_secure
                       /\ cookies[i].source = ret.browser
                       /\ cookies[i].value \in secret(src[k])

UndecryptableLoginsKept ==
    PasswordsImported =>
        LET src == fs.files[ChromeLogins].data
        IN  /\ "Passwords import failed" \notin Range(ret.errors)
            /\ \A k \in DOMAIN src :
                 (Undecryptable(src[k].password_value) /\ LastLoginOfKey(src, k)) =>
                    \E i \in DOMAIN logins :
                       /\ logins[i].origin = src[k].origin_url
                       /\ logins[i].username = src[k].username_value
                       /\ logins[i].realm = src[k].signon_realm
                       /\ logins[i].timesUsed = src[k].times_used
                       /\ logins[i].password = NULL

NullOrEmpty(r) == {NULL, ""}
PlaintextColumn(r) == {IF r.value = NULL THEN "" ELSE r.value}

-----------------------------------------------------------------------------
(* The helper functions called on their own.  A call leaves in ret what   *)
(* it was given and what it returned; nothing else changes.               *)

\* microsecond counts around the points where the conversions change
\* behaviour: a whole millisecond, its neighbours, zero, negative values
MicroInputs == {0 - 1001, 0 - 1000, 0 - 1, 0, 1, 999, 1000, 1001, 2500}

\* Chromium timestamps: before 1601 (hi < 0), between 1601 and 1970
\* (hi = 0) and from 1970 on (hi = 1), lo microseconds away
ChromeInputs == {[hi |-> h, lo |-> l] : h \in {0 - 1, 0, 1}, l \in MicroInputs}

\* blobs and keys: a key is absent (NULL), empty, the right one, another
\* one, or one of the wrong length
DecryptBlobs ==
    { EmptyBlob, PlainBlob("abc"), PlainBlob("v1"), ShortBlob,
      V10Blob("K1", "secret", TRUE), V10Blob("K1", "secret", FALSE) }
DecryptKeys == {NULL, "", "K1", "K2", "K-16-bytes"}

\* profiles.ini: missing, unreadable, without any profile section, with a
\* profile by relative path, one without Path and one by absolute path, or
\* with two profiles whose directories end in the same name
IniFiles ==
    { Ini("absent", <<>>), Ini("unreadable", <<>>),
      Ini("ok", <<IniEntry("General", <<>>, FALSE)>>),
      Ini("ok", <<IniEntry("General", <<>>, FALSE),
                  IniEntry("Profile0", <<"ini.default">>, TRUE),
                  IniEntry("Profile1", <<>>, TRUE),
                  IniEntry("profile2", <<"", "mnt", "abs.default">>, FALSE)>>),
      Ini("ok", <<IniEntry("Profile0", <<"ini.default">>, TRUE),
                  IniEntry("Profile1", <<"", "mnt", "ini.default">>, FALSE)>>) }

\* what the home directory may hold: any of the three roots, each listing
\* readable or not
HomeDirectories ==
    { [Base EXCEPT !.roots = r,
                   !.dirs = [chrome |-> Listing(c, <<"Default", "Profile 1", "Crashpad">>),
                             brave |-> Listing(c, <<"Profile 9">>),
                             firefox |-> Listing(d, <<"dev.default", "Crash Reports",
                                                      "old.default-release">>)],
                   !.ini = i]
        : r \in SUBSET {"chrome", "brave", "firefox"}, c \in BOOLEAN, d \in BOOLEAN,
          i \in IniFiles }

\* the argument of the pending call, by the kind of function that takes it
Argument(kind, arg) == [kind |-> kind, arg |-> arg]

Returned(fn, input, value) ==
    [call |-> fn, outcome |-> "returned", profileId |-> NULL,
     input |-> input, now |-> clock, value |-> value]

CallToUnixMsFromChromeUs ==
    /\ req.kind = "chrome time"
    /\ ret' = Returned("toUnixMsFromChromeUs", req.arg, toUnixMsFromChromeUs(req.arg, clock))
    /\ UNCHANGED <<fs, opts, tmp, bookmarks, history, cookies, logins, clock, pc, req,
                   result, items, catPre, last, calls>>
    /\ UNCHANGED app

CallToUnixMsFromFirefoxUs ==
    /\ req.kind = "firefox time"
    /\ ret' = Returned("toUnixMsFromFirefoxUs", req.arg, toUnixMsFromFirefoxUs(req.arg, clock))
    /\ UNCHANGED <<fs, opts, tmp, bookmarks, history, cookies, logins, clock, pc, req,
                   result, items, catPre, last, calls>>
    /\ UNCHANGED app

\* the timestamp bound to history.visitAt for a urls row
CallChromeHistoryRow ==
    /\ req.kind = "chrome time"
    /\ ret' = Returned("visitAt", req.arg,
                       chromeHistoryRow(UrlRow("u1", "A", req.arg, 1), clock).ts)
    /\ UNCHANGED <<fs, opts, tmp, bookmarks, history, cookies, logins, clock, pc, req,
                   result, items, catPre, last, calls>>
    /\ UNCHANGED app

\* the timestamp bound to history.visitAt for a moz_places row
CallFirefoxHistoryRow ==
    /\ req.kind = "firefox time"
    /\ ret' = Returned("firefox visitAt", req.arg,
                       firefoxHistoryRow(PlaceRow(1, "u1", "F", req.arg, 1), clock).ts)
    /\ UNCHANGED <<fs, opts, tmp, bookmarks, history, cookies, logins, clock, pc, req,
                   result, items, catPre, last, calls>>
    /\ UNCHANGED app

\* the timestamp bound to cookies.createdAt for a cookies row
CallCookieRow ==
    /\ req.kind = "chrome time"
    /\ ret' = Returned("createdAt", req.arg,
                       cookieRow([CookieSrc("h1", "sid", EmptyBlob, "v", T3)
                                     EXCEPT !.creation_utc = req.arg],
                                 NULL, "chrome", clock).createdAt)
    /\ UNCHANGED <<fs, opts, tmp, bookmarks, history, cookies, logins, clock, pc, req,
                   result, items, catPre, last, calls>>
    /\ UNCHANGED app

\* the value bound to cookies.expiresAt for a cookies row
CallCookieRowExpiry ==
    /\ req.kind = "chrome time"
    /\ ret' = Returned("cookie expiresAt", req.arg,
                       cookieRow([CookieSrc("h1", "sid", EmptyBlob, "v", T3)
                                     EXCEPT !.expires_utc = req.arg],
                                 NULL, "chrome", clock).expiresAt)
    /\ UNCHANGED <<fs, opts, tmp, bookmarks, history, cookies, logins, clock, pc, req,
                   result, items, catPre, last, calls>>
    /\ UNCHANGED app

\* the timestamp bound to logins.createdAt for a logins row
CallLoginRow ==
    /\ req.kind = "chrome time"
    /\ ret' = Returned("login createdAt", req.arg,
                       loginRow([LoginSrc("o1", "alice", EmptyBlob)
                                    EXCEPT !.date_created = req.arg], NULL, clock).createdAt)
    /\ UNCHANGED <<fs, opts, tmp, bookmarks, history, cookies, logins, clock, pc, req,
                   result, items, catPre, last, calls>>
    /\ UNCHANGED app

CallDecryptChromeValue ==
    /\ req.kind = "blob"
    /\ ret' = Returned("decryptChromeValue", req.arg,
                       decryptChromeValue(req.arg.blob, req.arg.key))
    /\ UNCHANGED <<fs, opts, tmp, bookmarks, history, cookies, logins, clock, pc, req,
                   result, items, catPre, last, calls>>
    /\ UNCHANGED app

CallDetectProfiles ==
    /\ req.kind = "home"
    /\ ret' = Returned("detectProfiles", NULL, detectProfiles(fs))
    /\ UNCHANGED <<fs, opts, tmp, bookmarks, history, cookies, logins, clock, pc, req,
                   result, items, catPre, last, calls>>
    /\ UNCHANGED app

\* the inputs: a timestamp at some current time, a blob and a key, or a
\* home directory
PureInputs ==
    \/ /\ req \in {Argument("chrome time", us) : us \in ChromeInputs}
                 \cup {Argument("firefox time", v) : v \in MicroInputs}
       /\ clock \in Now0 .. Now0 + MaxCalls
       /\ fs = Base
    \/ /\ req \in {Argument("blob", [blob |-> b, key |-> k]) :
                      b \in DecryptBlobs, k \in DecryptKeys}
       /\ clock = Now0
       /\ fs = Base
    \/ /\ req = Argument("home", NULL)
       /\ clock = Now0
       /\ fs \in HomeDirectories

PureInit ==
    /\ PureInputs
    /\ opts = Opts("U", "U", "U", "U", 0)
    /\ tmp = {}
    /\ bookmarks = <<>>
    /\ history = <<>>
    /\ cookies = <<>>
    /\ logins = <<>>
    /\ pc = "idle"
    /\ result = EmptyResult
    /\ items = NoItems
    /\ catPre = <<>>
    /\ ret = [call |-> "none", outcome |-> "none", profileId |-> NULL]
    /\ last = NoLast
    /\ calls = 0
    /\ AppIdle

PureNext ==
    \/ CallToUnixMsFromChromeUs
    \/ CallToUnixMsFromFirefoxUs
    \/ CallChromeHistoryRow
    \/ CallFirefoxHistoryRow
    \/ CallCookieRow
    \/ CallCookieRowExpiry
    \/ CallLoginRow
    \/ CallDecryptChromeValue
    \/ CallDetectProfiles

PureSpec == PureInit /\ [][PureNext]_vars

\* the Chromium timestamp that is exactly the 1601-to-1970 offset
EpochOffsetUs == [hi |-> 1, lo |-> 0]

\* C11: for the Chromium timestamp equal to the 1601-to-1970 offset the
\* normalizer returns 0.
C11_OffsetGivesZero ==
    (ret.call = "toUnixMsFromChromeUs" /\ ret.input = EpochOffsetUs) => ret.value = 0

\* floor(us / 1000) - 11644473600000 is positive: only from 1970 on
\* (hi = 1), and then it is floor(lo / 1000)
ChromeMsPositive(us) == us.hi = 1 /\ us.lo \div 1000 > 0

ChromeCalls == {"toUnixMsFromChromeUs", "visitAt", "createdAt", "login createdAt"}
FirefoxCalls == {"toUnixMsFromFirefoxUs", "firefox visitAt"}

\* C12: the Chromium normalizer returns floor(us / 1000) - 11644473600000
\* when that is positive and the current time otherwise, the Gecko
\* normalizer floor(us / 1000) when positive and the current time
\* otherwise; the visitAt and createdAt bound to the store are such values
\* and never zero or negative.
C12_NormalizedIsPositive ==
    /\ ret.call \in ChromeCalls =>
          /\ ret.value = IF ChromeMsPositive(ret.input) THEN ret.input.lo \div 1000
                         ELSE ret.now
          /\ ret.value > 0
    /\ ret.call \in FirefoxCalls =>
          /\ ret.value = IF ret.input \div 1000 > 0 THEN ret.input \div 1000 ELSE ret.now
          /\ ret.value > 0

\* a timestamp between 1601 and 1970 was bound to visitAt as the current time
C12_Witness ==
    /\ ret.call = "visitAt"
    /\ ret.input = [hi |-> 0, lo |-> 2500]
    /\ ret.value = ret.now

-----------------------------------------------------------------------------
(* The limit option *)

\* C13: when run is given limit = n > 0, at most n source rows are
\* processed for each selected category.
C13_LimitCapsEveryCategory ==
    (RunReturned /\ opts.limit > 0) =>
        \A c \in {"history", "bookmarks", "cookies", "passwords"} :
            ret.written[c] <= opts.limit

-----------------------------------------------------------------------------
(* preview *)

PreviewReturned == ret.call = "preview" /\ ret.outcome = "returned"

\* the category read from the file at path reports a count when the file
\* is readable, and no count but a note when reading it fails
CategoryIsolated(path, count, readable, note) ==
    /\ (safeExists(fs, path) /\ FileStatus(fs, path) \in readable) => count # NoInt
    /\ (safeExists(fs, path) /\ FileStatus(fs, path) \notin readable) =>
          (count = NoInt /\ note \in Range(ret.notes))

\* C16: when reading one category fails during preview, that category's
\* count is absent and a note is added, while every other category whose
\* source is readable still reports its count.
C16_PreviewIsolatesCategories ==
    PreviewReturned =>
        IF ret.browser = "firefox"
        THEN /\ CategoryIsolated(FirefoxPlaces, ret.counts.history, {"ok", "nobookmarks"},
                                 "Firefox preview failed")
             /\ CategoryIsolated(FirefoxPlaces, ret.counts.bookmarks, {"ok"},
                                 "Firefox preview failed")
        ELSE /\ CategoryIsolated(ChromeHistory, ret.counts.history, {"ok"},
                                 "History preview failed")
             /\ CategoryIsolated(ChromeBookmarks, ret.counts.bookmarks, {"ok"},
                                 "Bookmarks preview failed")
             /\ CategoryIsolated(ChromeCookies, ret.counts.cookies, {"ok"},
                                 "Cookies preview failed")
             /\ CategoryIsolated(ChromeLogins, ret.counts.passwords, {"ok"},
                                 "Passwords preview failed")

\* a Chromium profile with every file readable and no url bookmarked
\* twice is run with history, bookmarks and cookies selected and no limit,
\* no run having written to the store before; every category is done
FirstFullChromiumRun ==
    /\ pc = "return"
    /\ last.profileId = NULL
    /\ ChromeLike(req.prof)
    /\ \A path \in {ChromeHistory, ChromeBookmarks, ChromeCookies, ChromeLogins} :
          FileStatus(fs, path) = "ok"
    /\ LET marks == walk(fs.files[ChromeBookmarks].data)
       IN  Cardinality(UrlsOf(marks)) = Len(marks)
    /\ Selected(opts.history, TRUE)
    /\ Selected(opts.bookmarks, TRUE)
    /\ Selected(opts.cookies, FALSE)
    /\ opts.limit = 0

\* C17: in that case run reports imported[c] equal to preview's counts[c]
\* for history, bookmarks and cookies, passwords 0 when not selected, and
\* no errors.
C17_PreviewAndRunAgree ==
    FirstFullChromiumRun =>
        LET counts == previewChromeLike(fs, req.prof).counts
        IN  /\ result.imported.history = counts.history
            /\ result.imported.bookmarks = counts.bookmarks
            /\ result.imported.cookies = counts.cookies
            /\ ~Selected(opts.passwords, FALSE) => result.imported.passwords = 0
            /\ result.errors = <<>>

\* such a run, passwords not selected, over a Bookmarks file holding one
\* bookmark and a node of type url without a url
C17_Witness ==
    /\ FirstFullChromiumRun
    /\ opts.passwords = "F"
    /\ result.imported.history = 1
    /\ result.imported.bookmarks = 1
    /\ result.imported.cookies = 1
    /\ countUrlNodes(fs.files[ChromeBookmarks].data) = 2

-----------------------------------------------------------------------------
(* detectProfiles and decryptChromeValue *)

FamilyOf(id) ==
    CASE \E d \in {"Default"} \cup NumberedProfileDirs : id = "chrome:" \o d -> "chrome"
      [] \E d \in {"Default"} \cup NumberedProfileDirs : id = "brave:" \o d -> "brave"
      [] OTHER -> "firefox"

\* the profile comes from somewhere that exists and could be read: its
\* family's root exists; a Chromium profile was in a readable listing of
\* the root; a Firefox profile was in a readable listing or in a readable
\* profiles.ini
ReadFrom(f, prof) ==
    /\ prof.browser = FamilyOf(prof.id)
    /\ prof.browser \in f.roots
    /\ prof.browser \in {"chrome", "brave"} =>
          /\ f.dirs[prof.browser].readable
          /\ \E d \in Range(f.dirs[prof.browser].names) : prof.id = prof.browser \o ":" \o d
    /\ prof.browser = "firefox" =>
          \/ /\ f.dirs.firefox.readable
             /\ \E d \in Range(f.dirs.firefox.names) : prof.id = "firefox:" \o d
          \/ /\ f.ini.status = "ok"
             /\ \E e \in Range(f.ini.entries) :
                   e.path # <<>> /\ prof.id = "firefox:" \o e.path[Len(e.path)]

\* C18: for every state of the home directory detectProfiles returns a
\* list, omitting what it could not read, and changes neither the files
\* nor the store.
C18_DetectOmitsUnreadable ==
    [][ret'.call = "detectProfiles" =>
          /\ ret'.outcome = "returned"
          /\ \A i \in DOMAIN ret'.value : ReadFrom(fs', ret'.value[i])
          /\ fs' = fs /\ store' = store /\ tmp' = tmp]_vars

\* C19: decryptChromeValue returns for every blob and key: the blob
\* unchanged when it does not start with the v10 tag, no plaintext when it
\* does and the key is missing or authentication fails.
C19_DecryptIsTotal ==
    ret.call = "decryptChromeValue" =>
        LET blob == ret.input.blob
            key == ret.input.key
        IN  /\ ret.outcome = "returned"
            /\ blob.kind \in {"empty", "plain"} => ret.value = blob.bytes
            /\ (blob.kind \in {"v10", "short"} /\ key \in {NULL, ""}) => ret.value = NULL
            /\ (blob.kind = "short" \/ (blob.kind = "v10" /\ ~blob.tagOk)) => ret.value = NULL
            /\ (blob.kind = "v10" /\ key # blob.key) => ret.value = NULL

\* a tagged blob whose authentication tag was corrupted, given its key
C19_Witness ==
    /\ ret.call = "decryptChromeValue"
    /\ ret.input.blob = V10Blob("K1", "secret", FALSE)
    /\ ret.input.key = "K1"
    /\ ret.value = NULL

\* the [ProfileN] sections of a readable profiles.ini that name a Path
ManifestEntries(f) ==
    IF f.ini.status # "ok" THEN <<>>
    ELSE SelectSeq(f.ini.entries, LAMBDA e : e.section \in ProfileSections /\ e.path # <<>>)

\* the directory a manifest entry names
ManifestDir(e) == joinPath(IF e.rel THEN <<FirefoxRoot>> \o e.path ELSE e.path)

\* the directories of the Firefox root a scan would take
ScannedDirs(f) ==
    IF f.dirs.firefox.readable
    THEN SelectSeq(f.dirs.firefox.names, LAMBDA d : d \in DefaultLikeDirs)
    ELSE <<>>

FirefoxPart(profiles) == SelectSeq(profiles, LAMBDA q : q.browser = "firefox")

\* C24: the Firefox root is scanned for ".default" directories if and only
\* if profiles.ini is missing, unreadable or yields no profile; when it
\* yields one, the Firefox profiles are exactly its sections that hold a
\* Path, in order, and no scanned directory.
C24_ScanOnlyWithoutManifest ==
    (ret.call = "detectProfiles" /\ "firefox" \in fs.roots) =>
        LET found == FirefoxPart(ret.value)
            manifest == ManifestEntries(fs)
            scanned == ScannedDirs(fs)
        IN  IF manifest # <<>>
            THEN /\ Len(found) = Len(manifest)
                 /\ \A i \in DOMAIN found :
                       found[i].paths.firefoxPlaces
                           = ManifestDir(manifest[i]) \o "/places.sqlite"
            ELSE /\ Len(found) = Len(scanned)
                 /\ \A i \in DOMAIN found :
                       found[i].paths.firefoxPlaces
                           = "firefox/" \o scanned[i] \o "/places.sqlite"

\* a manifest with two profiles next to a root holding two ".default"
\* directories: only the manifest's two are returned
C24_Witness ==
    /\ ret.call = "detectProfiles"
    /\ "firefox" \in fs.roots
    /\ Len(ManifestEntries(fs)) = 2
    /\ Len(ScannedDirs(fs)) = 2
    /\ Len(FirefoxPart(ret.value)) = 2
    /\ ret.value[Len(ret.value)].id = "firefox:abs.default"

\* C26: a source cookie without expiry (expires_utc = 0) is stored with
\* expiresAt null.
C26_SessionCookieHasNoExpiry ==
    (ret.call = "cookie expiresAt" /\ ret.input = ChromeZero) => ret.value = NoInt

\* C29: no two profiles of a list detectProfiles returns share an id.
C29_ProfileIdsUnique ==
    ret.call = "detectProfiles" =>
        \A i, j \in DOMAIN ret.value : ret.value[i].id = ret.value[j].id => i = j

-----------------------------------------------------------------------------
(* The importer next to the browser's own services: the user visits pages *)
(* and adds bookmarks between imports, and a Brave profile sits beside the *)
(* Chrome one.                                                             *)

BraveLocalState == "BraveSoftware/Brave-Browser/Local State"
BraveHistory == "BraveSoftware/Brave-Browser/Default/History"
BraveBookmarks == "BraveSoftware/Brave-Browser/Default/Bookmarks"
BraveCookies == "BraveSoftware/Brave-Browser/Default/Cookies"

\* the Brave profile: its own key, the page u1 visited less often than in
\* Chrome, u1 bookmarked under another title, and a cookie with the key
\* (h1, sid, /) of a Chrome cookie but another value, flags and times
BraveFiles ==
    (BraveLocalState :> KeyFile("K2"))
    @@ (BraveHistory :> File("ok", <<UrlRow("u1", "B", T2, 2), UrlRow("u3", "C", T1, 0)>>))
    @@ (BraveBookmarks :> File("ok", BookmarkTree(<<JUrl("Brave", "u1"), JUrl("New", "u3")>>)))
    @@ (BraveCookies :> File("ok",
          <<[CookieSrc("h1", "sid", V10Blob("K2", "other", TRUE), "", T2)
               EXCEPT !.is_secure = 0, !.is_httponly = 1, !.creation_utc = T2]>>))

\* homes with the three browsers; the Chrome profile holds two cookies, and
\* its bookmarks either one url or the same url twice
\* what a Firefox profile holds next to places.sqlite: a cookies database
\* without the table the Chromium SELECT names, and a JSON file that is no
\* database
GeckoFiles ==
    (FirefoxCookies :> File("noquery", <<>>))
    @@ (FirefoxLogins :> File("noopen", <<>>))

UserHomes ==
    LET home == [Base EXCEPT !.roots = @ \cup {"brave"},
                             !.files = @ @@ BraveFiles @@ GeckoFiles]
        two == WithFile(home, ChromeCookies,
                        File("ok", <<CookieSrc("h1", "sid", V10Blob("K1", "secret", TRUE), "", T3),
                                     CookieSrc("h2", "pref", EmptyBlob, "dark", T3)>>))
    IN  { two,
          WithFile(two, ChromeBookmarks,
                   File("ok", BookmarkTree(<<JUrl("Site", "u1"), JUrl("Again", "u1")>>))) }

UserProfileIds == {"chrome:Default", "brave:Default", "firefox:dev.default"}

\* the pages the user visits and bookmarks: one the browsers know, one new
UserUrls == {"u1", "u9"}

\* the user opens a page: HistoryService.recordVisit
RecordVisit(url) ==
    /\ pc = "idle"
    /\ calls < MaxCalls
    /\ calls' = calls + 1
    /\ clock' = clock + 1
    /\ history' = recordVisit(history, url, "Visited", clock')
    /\ ret' = [call |-> "recordVisit", outcome |-> "returned", profileId |-> NULL,
               url |-> url]
    /\ UNCHANGED <<fs, opts, tmp, bookmarks, cookies, logins, pc, req, result, items,
                   catPre, last>>
    /\ UNCHANGED app

\* the user bookmarks a page: BookmarksService.add
AddBookmark(url) ==
    /\ pc = "idle"
    /\ calls < MaxCalls
    /\ calls' = calls + 1
    /\ clock' = clock + 1
    /\ bookmarks' = bookmarksAdd(bookmarks, "Mine", url, clock')
    /\ ret' = [call |-> "add", outcome |-> "returned", profileId |-> NULL, url |-> url]
    /\ UNCHANGED <<fs, opts, tmp, history, cookies, logins, pc, req, result, items,
                   catPre, last>>
    /\ UNCHANGED app

\* the options of the runs: none given, every category, and two that
\* switch categories off
UserOpts ==
    { Opts("U", "U", "U", "U", 0), Opts("T", "T", "T", "T", 0),
      Opts("F", "T", "F", "T", 0), Opts("T", "F", "T", "F", 0) }

UserInit ==
    /\ fs \in UserHomes
    /\ opts \in UserOpts
    /\ tmp = {}
    /\ bookmarks = <<>>
    /\ history = <<>>
    /\ cookies = <<>>
    /\ logins = <<>>
    /\ clock = Now0
    /\ pc = "idle"
    /\ req = IdleReq
    /\ result = EmptyResult
    /\ items = NoItems
    /\ catPre = <<>>
    /\ ret = [call |-> "none", outcome |-> "none", profileId |-> NULL]
    /\ last = NoLast
    /\ calls = 0
    /\ AppIdle

UserNext ==
    \/ \E id \in UserProfileIds : Preview(id)
    \/ \E id \in UserProfileIds : RunStart(id)
    \/ RunChromeHistory
    \/ RunChromeBookmarks
    \/ ChromeBookmarkRow
    \/ RunChromeCookies
    \/ RunChromePasswords
    \/ RunFirefoxHistory
    \/ RunFirefoxBookmarks
    \/ FirefoxBookmarkRow
    \/ RunReturn
    \/ Interrupt
    \/ \E url \in UserUrls : RecordVisit(url)
    \/ \E url \in UserUrls : AddBookmark(url)

UserSpec == UserInit /\ [][UserNext]_vars

\* C14: a bookmark whose url the store already holds, whoever put it
\* there, adds no row and leaves the stored row's title and createdAt as
\* they were; no two rows of the table hold the same url.
C14_BookmarkDedup ==
    [][/\ \A i \in DOMAIN bookmarks :
             i \in DOMAIN bookmarks' /\ bookmarks'[i] = bookmarks[i]
       /\ \A i, j \in DOMAIN bookmarks' :
             bookmarks'[i].url = bookmarks'[j].url => i = j
       /\ (pc \in {"bookmarks_rows", "ffbookmarks_rows"} /\ items.todo # <<>>
           /\ HasUrl(bookmarks, Head(items.todo).url)) => bookmarks' = bookmarks
       /\ (ret'.call = "add" /\ HasUrl(bookmarks, ret'.url)) => bookmarks' = bookmarks]_vars

\* an import met in the source a url the user had bookmarked: the user's
\* row is the only one with that url
C14_Witness ==
    /\ RunReturned
    /\ ret.browser = "brave"
    /\ Len(bookmarks) = 2
    /\ bookmarks[1] = [title |-> "Mine", url |-> "u1", createdAt |-> Now0 + 1]
    /\ bookmarks[2].url = "u3"

\* the cookies file and the master key of the profile a run was given
CookieSource(profileId) ==
    LET prof == findProfile(fs, profileId)[1]
    IN  [path |-> prof.paths.cookies,
         key |-> loadChromeMasterKey(fs.files[prof.paths.localState])]

\* C15: after a run imported the cookies of a profile, the store holds for
\* each key of that profile's cookies exactly one row, and the row is the
\* one this import wrote: its value, flags, timestamps and source.
C15_LastImportWins ==
    (/\ RunReturned
     /\ ret.browser \in {"chrome", "brave"}
     /\ Succeeds(Selected(opts.cookies, FALSE), CookieSource(ret.profileId).path)) =>
        LET src == fs.files[CookieSource(ret.profileId).path].data
        IN  \A k \in DOMAIN src :
               (~RowThrows(src[k].encrypted_value) /\ LastCookieOfKey(src, k)) =>
                  LET want == cookieRow(src[k], CookieSource(ret.profileId).key,
                                        ret.browser, clock)
                      same == {i \in DOMAIN cookies : SameCookieKey(cookies[i], want)}
                  IN  /\ Cardinality(same) = 1
                      /\ \A i \in same :
                            /\ cookies[i].value = want.value
                            /\ cookies[i].secure = want.secure
                            /\ cookies[i].httpOnly = want.httpOnly
                            /\ cookies[i].createdAt = want.createdAt
                            /\ cookies[i].expiresAt = want.expiresAt
                            /\ cookies[i].lastAccessedAt = want.lastAccessedAt
                            /\ cookies[i].source = want.source

\* Chrome's cookies were imported, then Brave's: the cookie only Chrome has
\* is Chrome's, the one both have is Brave's
C15_Witness ==
    /\ RunReturned
    /\ ret.browser = "brave"
    /\ Len(cookies) = 2
    /\ \E i \in DOMAIN cookies : cookies[i].host = "h2" /\ cookies[i].source = "chrome"
    /\ \E i \in DOMAIN cookies :
          /\ cookies[i].host = "h1" /\ cookies[i].name = "sid"
          /\ cookies[i].value = "other" /\ cookies[i].secure = 0
          /\ cookies[i].source = "brave"

\* C20: whatever recordVisit calls and history imports follow one another,
\* the visitCount stored for a url never decreases and is at least 1.
C20_VisitCountMonotone ==
    [][/\ \A i \in DOMAIN history :
             \E j \in DOMAIN history' :
                /\ history'[j].url = history[i].url
                /\ history'[j].visitCount >= history[i].visitCount
       /\ \A j \in DOMAIN history' : history'[j].visitCount >= 1]_vars

\* Chrome's history, where u1 has 5 visits, was imported and the user
\* then opened u1
C20_Witness ==
    /\ ret.call = "recordVisit"
    /\ ret.url = "u1"
    /\ \E i \in DOMAIN history :
          /\ history[i].url = "u1"
          /\ history[i].visitCount = 6
          /\ history[i].title = "Visited"

\* a run is between its profile lookup and its return
InRun == pc \notin {"idle", "killed"}

RunReturns == pc = "return" /\ pc' = "idle"

NoErrorOf(errors, messages) == \A i \in DOMAIN errors : errors[i] \notin messages

\* C27: a run called with a category's option false writes nothing to that
\* category's table, reports 0 for it and adds no error for it; the same
\* holds for cookies and passwords when their option is omitted.
C27_UnselectedUntouched ==
    [][InRun =>
         /\ opts.history = "F" =>
               /\ history' = history
               /\ RunReturns =>
                     /\ ret'.imported.history = 0
                     /\ NoErrorOf(ret'.errors, {"History import failed",
                                                "Firefox history import failed"})
         /\ opts.bookmarks = "F" =>
               /\ bookmarks' = bookmarks
               /\ RunReturns =>
                     /\ ret'.imported.bookmarks = 0
                     /\ NoErrorOf(ret'.errors, {"Bookmarks import failed",
                                                "Firefox bookmarks import failed"})
         /\ opts.cookies \in {"F", "U"} =>
               /\ cookies' = cookies
               /\ RunReturns =>
                     /\ ret'.imported.cookies = 0
                     /\ NoErrorOf(ret'.errors, {"Cookies import failed"})
         /\ opts.passwords \in {"F", "U"} =>
               /\ logins' = logins
               /\ RunReturns =>
                     /\ ret'.imported.passwords = 0
                     /\ NoErrorOf(ret'.errors, {"Passwords import failed"})]_vars

\* a Chrome run with history and cookies switched off: bookmarks and
\* passwords arrived, the history and cookies of the profile did not
C27_Witness ==
    /\ RunReturned
    /\ ret.profileId = "chrome:Default"
    /\ opts = Opts("F", "T", "F", "T", 0)
    /\ ret.imported.bookmarks > 0 /\ ret.imported.passwords > 0
    /\ ret.imported.history = 0 /\ ret.imported.cookies = 0
    /\ history = <<>> /\ cookies = <<>>
    /\ FileStatus(fs, ChromeHistory) = "ok" /\ FileStatus(fs, ChromeCookies) = "ok"

\* C28: a run on a Firefox profile writes no row to cookies or logins,
\* reports 0 cookies and 0 passwords and records no error for them,
\* whatever options select.
C28_GeckoHistoryAndBookmarksOnly ==
    [][(InRun /\ req.prof.browser = "firefox") =>
         /\ cookies' = cookies
         /\ logins' = logins
         /\ RunReturns =>
               /\ ret'.imported.cookies = 0
               /\ ret'.imported.passwords = 0
               /\ NoErrorOf(ret'.errors, {"Cookies import failed",
                                          "Passwords import failed"})]_vars

\* a Firefox run with every category selected, the profile holding
\* cookies.sqlite and logins.json: history arrived, nothing else was said
C28_Witness ==
    /\ RunReturned
    /\ ret.browser = "firefox"
    /\ opts = Opts("T", "T", "T", "T", 0)
    /\ safeExists(fs, FirefoxCookies) /\ safeExists(fs, FirefoxLogins)
    /\ ret.imported.history > 0
    /\ ret.imported.cookies = 0 /\ ret.imported.passwords = 0
    /\ ret.errors = <<>>

-----------------------------------------------------------------------------
(* The search service on its own: a configuration, then setProvider and   *)
(* getProvider calls in any order.                                         *)

\* priority lists (an absent list is the empty one: priority || []): empty,
\* and lists naming providers in another order than pickProvider's own
Priorities == {<<>>, <<"google", "brave">>, <<"bing", "searxng">>}

\* configurations: the provider (one of them not an allowed name), the
\* priority list, and each credential present or empty; Google has two
SearchConfigs ==
    { Search(p, pr, b, sx, gk, gc, bi, "")
        : p \in {"auto", "searxng", "google", "duckduckgo"}, pr \in Priorities,
          b \in {"", "abc123"}, sx \in {"", "http://localhost:8080"},
          gk \in {"", "gkey"}, gc \in {"", "cx"}, bi \in {"", "bkey"} }

\* setProvider(p)
SetProvider(p) ==
    /\ overrideProvider' = p
    /\ ret' = [call |-> "setProvider", outcome |-> "returned", profileId |-> NULL,
               input |-> p]
    /\ UNCHANGED <<fs, opts, tmp, bookmarks, history, cookies, logins, clock, pc, req,
                   result, items, catPre, last, calls>>
    /\ UNCHANGED <<cfg, inbox, pushes, session, tabs, activeTabId, mainWindow>>

\* getProvider()
GetProvider ==
    /\ ret' = [call |-> "getProvider", outcome |-> "returned", profileId |-> NULL,
               value |-> pickProvider(cfg, overrideProvider)]
    /\ UNCHANGED <<fs, opts, tmp, bookmarks, history, cookies, logins, clock, pc, req,
                   result, items, catPre, last, calls>>
    /\ UNCHANGED app

SearchInit ==
    /\ fs = Base
    /\ opts = Opts("U", "U", "U", "U", 0)
    /\ tmp = {}
    /\ bookmarks = <<>>
    /\ history = <<>>
    /\ cookies = <<>>
    /\ logins = <<>>
    /\ clock = Now0
    /\ pc = "idle"
    /\ req = IdleReq
    /\ result = EmptyResult
    /\ items = NoItems
    /\ catPre = <<>>
    /\ ret = [call |-> "none", outcome |-> "none", profileId |-> NULL]
    /\ last = NoLast
    /\ calls = 0
    /\ cfg \in SearchConfigs
    /\ overrideProvider = NULL
    /\ inbox = <<>>
    /\ pushes = <<>>
    /\ session = {}
    /\ tabs = <<>>
    /\ activeTabId = NULL
    /\ mainWindow = FALSE

SearchNext ==
    \/ \E p \in allowed \cup {"auto"} : SetProvider(p)
    \/ GetProvider

SearchSpec == SearchInit /\ [][SearchNext]_vars

\* getProvider returned, the provider being 'auto' and no override set
AutoSelection ==
    /\ ret.call = "getProvider"
    /\ cfg.provider = "auto"
    /\ overrideProvider = NULL

Configured ==
    {prov \in allowed :
        CASE prov = "brave" -> cfg.brave.apiKey # ""
          [] prov = "searxng" -> cfg.searxng.baseUrl # ""
          [] prov = "google" -> cfg.google.apiKey # "" /\ cfg.google.cx # ""
          [] prov = "bing" -> cfg.bing.apiKey # ""
          [] prov = "presearch" -> cfg.presearch.apiUrl # ""}

PriorityList == cfg.priority

\* the value is the first element of list that is configured
FirstOf(list, value) ==
    \E i \in DOMAIN list :
        /\ list[i] = value
        /\ value \in Configured
        /\ \A j \in 1 .. i - 1 : list[j] \notin Configured

NoneOf(list) == \A i \in DOMAIN list : list[i] \notin Configured

C22_OverrideWins ==
    [][/\ ret'.call = "setProvider" => overrideProvider' = ret'.input
       /\ ret'.call = "getProvider" =>
             IF overrideProvider' \notin {NULL, "auto"}
             THEN ret'.value = overrideProvider'
             ELSE ret'.value = pickProvider(cfg', NULL)]_vars

\* the configuration names searxng, the override names bing: bing
C22_Witness ==
    /\ ret.call = "getProvider"
    /\ cfg.provider = "searxng"
    /\ overrideProvider = "bing"
    /\ ret.value = "bing"

-----------------------------------------------------------------------------
(* The tabs of the main process: the window is created and closed, tabs    *)
(* are created, activated and closed in any order.                         *)

\* the ids createTab gives out, in the order it gives them out
TabIds == <<"t1", "t2", "t3">>

Others ==
    <<fs, opts, tmp, bookmarks, history, cookies, logins, clock, pc, req,
      result, items, catPre, last, cfg, overrideProvider, inbox, pushes, session>>

\* createTab: push the tab, then activateTab(id)
CreateTab ==
    /\ calls < Len(TabIds)
    /\ calls' = calls + 1
    /\ LET id == TabIds[calls + 1]
       IN  /\ tabs' = Append(tabs, id)
           /\ activeTabId' = activateTab(tabs', activeTabId, mainWindow, id)
           /\ ret' = [call |-> "createTab", outcome |-> "returned", profileId |-> NULL,
                      input |-> id]
    /\ UNCHANGED mainWindow
    /\ UNCHANGED Others

\* createWindow: mainWindow = new BrowserWindow(...), then the first tab
CreateWindow ==
    /\ ~mainWindow
    /\ calls < Len(TabIds)
    /\ calls' = calls + 1
    /\ mainWindow' = TRUE
    /\ LET id == TabIds[calls + 1]
       IN  /\ tabs' = Append(tabs, id)
           /\ activeTabId' = activateTab(tabs', activeTabId, mainWindow', id)
           /\ ret' = [call |-> "createWindow", outcome |-> "returned", profileId |-> NULL,
                      input |-> id]
    /\ UNCHANGED Others

\* mainWindow.on('closed')
WindowClosed ==
    /\ mainWindow
    /\ mainWindow' = FALSE
    /\ ret' = [call |-> "closed", outcome |-> "returned", profileId |-> NULL,
               input |-> NULL]
    /\ UNCHANGED <<tabs, activeTabId, calls>>
    /\ UNCHANGED Others

\* the tabs:activate handler
ActivateTab(id) ==
    /\ activeTabId' = activateTab(tabs, activeTabId, mainWindow, id)
    /\ ret' = [call |-> "activateTab", outcome |-> "returned", profileId |-> NULL,
               input |-> id]
    /\ UNCHANGED <<tabs, mainWindow, calls>>
    /\ UNCHANGED Others

\* closeTab: splice the tab out; when it was the active one, activate
\* tabs[idx] || tabs[idx - 1] || tabs[0], or set activeTabId to null
CloseTab(id) ==
    /\ LET idx == IF hasTab(tabs, id) THEN CHOOSE i \in DOMAIN tabs : tabs[i] = id ELSE 0
           after == SelectSeq(tabs, LAMBDA t : t # id)
           next == nextTab(after, idx)
       IN  /\ tabs' = after
           /\ activeTabId' =
                 IF idx = 0 \/ activeTabId # id THEN activeTabId
                 ELSE IF next # NULL THEN activateTab(after, activeTabId, mainWindow, next)
                 ELSE NULL
    /\ ret' = [call |-> "closeTab", outcome |-> "returned", profileId |-> NULL,
               input |-> id]
    /\ UNCHANGED <<mainWindow, calls>>
    /\ UNCHANGED Others

TabInit ==
    /\ fs = Base
    /\ opts = Opts("U", "U", "U", "U", 0)
    /\ tmp = {}
    /\ bookmarks = <<>>
    /\ history = <<>>
    /\ cookies = <<>>
    /\ logins = <<>>
    /\ clock = Now0
    /\ pc = "idle"
    /\ req = IdleReq
    /\ result = EmptyResult
    /\ items = NoItems
    /\ catPre = <<>>
    /\ ret = [call |-> "none", outcome |-> "none", profileId |-> NULL]
    /\ last = NoLast
    /\ calls = 0
    /\ AppIdle

TabNext ==
    \/ CreateWindow
    \/ WindowClosed
    \/ CreateTab
    \/ \E id \in Range(TabIds) : ActivateTab(id)
    \/ \E id \in Range(TabIds) : CloseTab(id)

TabSpec == TabInit /\ [][TabNext]_vars

\* the position of a tab in the list
PositionOf(ts, id) == CHOOSE i \in DOMAIN ts : ts[i] = id

\* C30: after any createTab, activateTab and closeTab, with or without the
\* main window, activeTabId is null or the id of a tab in the list;
\* closing the active tab while others remain makes a neighbour of it
\* active, and closing the last tab sets activeTabId to null.
C30_ActiveTabIsListed ==
    [][/\ activeTabId' = NULL \/ hasTab(tabs', activeTabId')
       /\ (ret'.call = "closeTab" /\ activeTabId = ret'.input /\ hasTab(tabs, ret'.input)) =>
             IF tabs' = <<>> THEN activeTabId' = NULL
             ELSE /\ hasTab(tabs', activeTabId')
                  /\ PositionOf(tabs, activeTabId')
                        \in {PositionOf(tabs, ret'.input) - 1,
                             PositionOf(tabs, ret'.input) + 1}]_vars


-----------------------------------------------------------------------------
(* The importer behind its IPC channel: the renderer sends import:run      *)
(* requests without waiting for the replies, the main thread takes one     *)
(* event at a time, and a handler whose run imported cookies pushes the    *)
(* stored cookies into the session, one awaited cookies.set after another. *)

\* the Chrome cookies database: two rows, none, or one that cannot be read
IpcHomes ==
    LET two == CHOOSE f \in UserHomes : Len(walk(f.files[ChromeBookmarks].data)) = 1
    IN  { two,
          WithFile(two, ChromeCookies, File("ok", <<>>)),
          WithStatus(two, ChromeCookies, "noquery") }

IpcOpts == { Opts("U", "U", "U", "U", 0), Opts("T", "T", "T", "T", 0) }

\* ipcRenderer.invoke('import:run', profileId, opts)
InvokeImportRun(profileId) ==
    /\ calls + Len(inbox) < MaxCalls
    /\ inbox' = Append(inbox, profileId)
    /\ UNCHANGED <<fs, opts, tmp, bookmarks, history, cookies, logins, clock, pc, req,
                   result, items, catPre, ret, last, calls>>
    /\ UNCHANGED <<cfg, overrideProvider, pushes, session, tabs, activeTabId, mainWindow>>

\* the handler of import:run up to the first block of importer.run
ImportRunHandler ==
    /\ LoopFree
    /\ inbox # <<>>
    /\ RunBegins(Head(inbox))
    /\ inbox' = Tail(inbox)
    /\ UNCHANGED <<cfg, overrideProvider, pushes, session, tabs, activeTabId, mainWindow>>

\* importer.run returns to the handler, which starts the push when cookies
\* were imported and replies at once when not
ImportRunResumes ==
    /\ RunEnds
    /\ pushes' = IF cookiesWereImported(opts, result)
                 THEN Append(pushes, applyImportedCookiesToSession(cookies))
                 ELSE pushes
    /\ UNCHANGED <<cfg, overrideProvider, inbox, session, tabs, activeTabId, mainWindow>>

RemoveAt(seq, i) == SubSeq(seq, 1, i - 1) \o SubSeq(seq, i + 1, Len(seq))

\* an awaited cookies.set of a waiting handler takes effect and the handler
\* goes on to its next one
SessionCookiesSet(i) ==
    /\ LoopFree
    /\ i \in DOMAIN pushes
    /\ pushes[i] # <<>>
    /\ session' = cookiesSet(session, Head(pushes[i]))
    /\ pushes' = [pushes EXCEPT ![i] = Tail(@)]
    /\ UNCHANGED <<fs, opts, tmp, bookmarks, history, cookies, logins, clock, pc, req,
                   result, items, catPre, ret, last, calls>>
    /\ UNCHANGED <<cfg, overrideProvider, inbox, tabs, activeTabId, mainWindow>>

\* a handler whose push is over returns res to the renderer
ImportRunReplies(i) ==
    /\ LoopFree
    /\ i \in DOMAIN pushes
    /\ pushes[i] = <<>>
    /\ pushes' = RemoveAt(pushes, i)
    /\ UNCHANGED <<fs, opts, tmp, bookmarks, history, cookies, logins, clock, pc, req,
                   result, items, catPre, ret, last, calls>>
    /\ UNCHANGED <<cfg, overrideProvider, inbox, session, tabs, activeTabId, mainWindow>>

IpcInit ==
    /\ fs \in IpcHomes
    /\ opts \in IpcOpts
    /\ tmp = {}
    /\ bookmarks = <<>>
    /\ history = <<>>
    /\ cookies = <<>>
    /\ logins = <<>>
    /\ clock = Now0
    /\ pc = "idle"
    /\ req = IdleReq
    /\ result = EmptyResult
    /\ items = NoItems
    /\ catPre = <<>>
    /\ ret = [call |-> "none", outcome |-> "none", profileId |-> NULL]
    /\ last = NoLast
    /\ calls = 0
    /\ AppIdle

IpcNext ==
    \/ \E id \in UserProfileIds : InvokeImportRun(id)
    \/ ImportRunHandler
    \/ RunChromeHistory
    \/ RunChromeBookmarks
    \/ ChromeBookmarkRow
    \/ RunChromeCookies
    \/ RunChromePasswords
    \/ RunFirefoxHistory
    \/ RunFirefoxBookmarks
    \/ FirefoxBookmarkRow
    \/ ImportRunResumes
    \/ \E i \in 1 .. MaxCalls : SessionCookiesSet(i)
    \/ \E i \in 1 .. MaxCalls : ImportRunReplies(i)

IpcSpec == IpcInit /\ [][IpcNext]_vars

\* the order of the blocks of run
Successions ==
    { <<"idle", "history">>, <<"history", "bookmarks">>,
      <<"bookmarks", "bookmarks_rows">>, <<"bookmarks", "cookies">>,
      <<"bookmarks_rows", "cookies">>, <<"cookies", "passwords">>,
      <<"passwords", "ffhistory">>, <<"ffhistory", "ffbookmarks">>,
      <<"ffbookmarks", "ffbookmarks_rows">>, <<"ffbookmarks", "return">>,
      <<"ffbookmarks_rows", "return">>, <<"return", "idle">> }

\* C23: the blocks of a run follow one another in the fixed order, and a
\* request that arrives while a run is in progress is taken only after the
\* run returned: from its first block to its return the run in progress
\* stays the same one, and only a run in progress writes to the store.
C23_RunsDoNotInterleave ==
    [][/\ pc' # pc => <<pc, pc'>> \in Successions
       /\ Len(inbox') < Len(inbox) => (pc = "idle" /\ pushes' = pushes)
       /\ (pc # "idle" /\ pc' # "idle") => req' = req
       /\ store' # store => (pc # "idle" /\ req' = req)]_vars

\* a second request is waiting while a run is between two of its blocks
C23_Witness ==
    /\ pc = "cookies"
    /\ inbox # <<>>
    /\ calls = 1

\* C25: the blocks of run never change the session or start a push; the
\* handler starts a push of the stored cookies when run returns if and
\* only if the run reports imported.cookies > 0; the session changes only
\* by a cookies.set of a push that was started.
C25_PushIffCookiesImported ==
    [][/\ pc # "idle" => session' = session
       /\ (pc # "idle" /\ pc # "return") => pushes' = pushes
       /\ RunReturns =>
             IF ret'.imported.cookies > 0
             THEN pushes' = Append(pushes, applyImportedCookiesToSession(cookies))
             ELSE pushes' = pushes
       /\ session' # session =>
             \E i \in DOMAIN pushes :
                /\ pushes[i] # <<>>
                /\ session' = cookiesSet(session, Head(pushes[i]))]_vars

\* a run imported two cookies and both reached the session
C25_Witness ==
    /\ RunReturned
    /\ ret.imported.cookies = 2
    /\ pushes = <<>>
    /\ Cardinality(session) = 2
    /\ \E c \in session : c.name = "sid" /\ c.url = "https://h1" /\ c.value = "secret"

====
